---- MODULE Spec2Model ----
(***************************************************************************)
(* Frame loop, swapchain recreation and teardown of playground's           *)
(* Application (src/src/application.cc, the ImGui iteration, lines         *)
(* 924-2409), together with the device-side behaviour of the queue         *)
(* submissions, present requests, semaphores and fences it uses.           *)
(***************************************************************************)
EXTENDS Integers, Naturals, Sequences, FiniteSets, TLC

(* ----------------------------------------------------------------------- *)
(* Program constants and bounds                                            *)
(* ----------------------------------------------------------------------- *)

\* include/application.h:36
MAX_FRAMES_IN_FLIGHT == 2

\* capabilities.minImageCount reported by the surface (environment)
MinImageCount == 2

\* capabilities.maxImageCount reported by the surface, 0 = no cap
MaxImageCount == 0

\* largest framebuffer width/height the window system reports (0 = minimised)
MaxDim == 2

\* largest minImageCount / maxImageCount a surface reports
MaxCount == 3

\* longest list of surface formats or present modes a surface reports
MaxListLen == 3

Slots == 0 .. (MAX_FRAMES_IN_FLIGHT - 1)

Dims == 0 .. MaxDim

\* framebuffer heights: the window is resized along its width, and minimised
Heights == {0, MaxDim}

NoImage == -1

\* VkResult values the code distinguishes; "ERROR" stands for every other code
VK_SUCCESS == "VK_SUCCESS"
VK_SUBOPTIMAL_KHR == "VK_SUBOPTIMAL_KHR"
VK_ERROR_OUT_OF_DATE_KHR == "VK_ERROR_OUT_OF_DATE_KHR"
VK_ERROR_OTHER == "VK_ERROR_OTHER"
NoResult == "none"

SwapchainResults == {VK_SUCCESS, VK_SUBOPTIMAL_KHR, VK_ERROR_OUT_OF_DATE_KHR, VK_ERROR_OTHER}

\* semaphore handles of slot i
ImageAvailable(i) == <<"image_available", i>>
RenderFinished(i) == <<"render_finished", i>>
Semaphores == {ImageAvailable(i) : i \in Slots} \cup {RenderFinished(i) : i \in Slots}
NoSemaphore == <<"null", 0>>

VARIABLES
  pc,                  \* position of the application thread
  ret,                 \* where the running op list returns to
  ops,                 \* remaining operations of RecreateSwapChain / ~Application
  log,                 \* operations done so far by the running op list
  current_frame,       \* Application::current_frame
  framebuffer_resized, \* Application::framebuffer_resized
  image_index,         \* DrawFrame local
  result,              \* DrawFrame local
  in_flight_fences,    \* slot -> signaled
  semaphores,          \* semaphore handle -> signaled
  command_buffers,     \* slot -> lifecycle state of the command buffer
  swap_chain_images,   \* image index -> [state, sem]
  objects,             \* Vulkan / window objects owned by Application
  graphics_queue,      \* submissions not yet completed by the GPU
  present_queue,       \* present requests not yet taken by the presentation engine
  fb_width, fb_height, \* what glfwGetFramebufferSize reports
  should_close,        \* glfwWindowShouldClose
  exc,                 \* an exception is propagating / was caught by main
  exit_code,           \* value returned by main
  what,                \* e.what() of the exception that is propagating
  cerr,                \* what main has written to std::cerr
  surface,             \* what the physical device reports for surface_
  swap_chain_support,  \* CreateSwapChain local: details queried by the last call,
                       \* with the framebuffer size at that call
  swap_chain_info,     \* CreateSwapChain local: the last VkSwapchainCreateInfoKHR
  swap_chain_image_format, \* Application::swap_chain_image_format_
  swap_chain_extent,   \* Application::swap_chain_extent_
  swap_chain_image_views,  \* Application::swap_chain_image_views_
  swap_chain_framebuffers, \* Application::swap_chain_framebuffers_
  render_pass_info,    \* RecordCommandBuffer local of the running DrawFrame
  sel_pc,              \* position of the device selection
  queue_families,      \* FindQueueFaimilies local: the families of the device
  family_i,            \* FindQueueFaimilies local: loop index i
  indices,             \* FindQueueFaimilies local: the QueueFamilies it returns
  device,              \* EvaluateDevice parameter
  score,               \* EvaluateDevice local
  devices,             \* PickPhysicalDevice local: the enumerated devices
  device_i,            \* PickPhysicalDevice: devices evaluated so far
  candidates,          \* PickPhysicalDevice local: the multimap, in key order
  physical_device,     \* Application::physical_device_
  enable_validation,   \* ENABLE_VALIDATION_LAYER / Device::enable_validation_layer_
  runtime,             \* what the Vulkan runtime and the window system support
  shader_modules       \* the two VkShaderModule handles of CreateGraphicsPipeline

appState == <<pc, ret, ops, log, current_frame, framebuffer_resized, image_index,
              result, in_flight_fences, semaphores, command_buffers,
              swap_chain_images, objects, graphics_queue, present_queue,
              fb_width, fb_height, should_close, exc, exit_code, what, cerr, surface,
              swap_chain_support, swap_chain_info, swap_chain_image_format,
              swap_chain_extent, swap_chain_image_views, swap_chain_framebuffers,
              render_pass_info>>

selectionState == <<sel_pc, queue_families, family_i, indices, device, score,
                    devices, device_i, candidates, physical_device>>

\* the build flag, the runtime and the shader modules, which Run leaves alone
setupState == <<enable_validation, runtime, shader_modules>>

vars == <<appState, selectionState, setupState>>

cpuLocals == <<image_index, result>>
gpuState == <<in_flight_fences, semaphores, command_buffers, swap_chain_images,
              graphics_queue, present_queue>>
windowState == <<fb_width, fb_height, should_close>>
swapChainState == <<swap_chain_support, swap_chain_info, swap_chain_image_format,
                    swap_chain_extent, swap_chain_image_views, swap_chain_framebuffers>>
staticState == <<surface, selectionState, setupState>>

(* ----------------------------------------------------------------------- *)
(* Swapchain creation helpers                                              *)
(* ----------------------------------------------------------------------- *)

\* the number of images without the cap of maxImageCount
ImageCount_Uncapped(minCount, maxCount) == minCount + 1

\* application.cc:1288-1292
ImageCount(minCount, maxCount) ==
  IF maxCount > 0 /\ minCount + 1 > maxCount THEN maxCount ELSE minCount + 1

Images == 0 .. (ImageCount(MinImageCount, MaxImageCount) - 1)

\* an image the presentation engine owns and acquire may return; torn records
\* that the image was shown or written out of turn
FreeImage == [state |-> "free", sem |-> NoSemaphore, torn |-> FALSE]

\* std::numeric_limits<uint32_t>::max(), application.cc:2185-2186, written as
\* the 32-bit pattern it shares with -1 (the checker's integers are 32-bit)
UINT32_MAX == -1

Extent2D(w, h) == [width |-> w, height |-> h]

\* the surface format ChooseSwapSurfaceFormat looks for (application.cc:2163-2164)
PreferredFormat ==
  [format |-> "VK_FORMAT_B8G8R8A8_UNORM", colorSpace |-> "VK_COLOR_SPACE_SRGB_NONLINEAR_KHR"]

\* another surface format a device may report
OtherFormat ==
  [format |-> "VK_FORMAT_R8G8B8A8_SRGB", colorSpace |-> "VK_COLOR_SPACE_SRGB_NONLINEAR_KHR"]

\* surfaces the window system can give: one whose currentExtent follows the
\* window and one that leaves the extent to the swapchain (currentExtent is
\* the special value), each with its format and present-mode lists
Surfaces ==
  { [extent_defined |-> TRUE,
     formats |-> <<OtherFormat, PreferredFormat>>,
     present_modes |-> <<"VK_PRESENT_MODE_FIFO_KHR", "VK_PRESENT_MODE_MAILBOX_KHR">>],
    [extent_defined |-> FALSE,
     formats |-> <<OtherFormat>>,
     present_modes |-> <<"VK_PRESENT_MODE_FIFO_KHR">>] }

\* QuerySwapChainSupoort on surface s while the framebuffer is w x h;
\* application.cc:2128-2158
QuerySwapChainSupoort(s, w, h) ==
  [capabilities |->
     [minImageCount |-> MinImageCount,
      maxImageCount |-> MaxImageCount,
      currentExtent |-> IF s.extent_defined THEN Extent2D(w, h)
                        ELSE Extent2D(UINT32_MAX, UINT32_MAX),
      minImageExtent |-> Extent2D(1, 1),
      maxImageExtent |-> Extent2D(MaxDim, MaxDim)],
   formats |-> s.formats,
   present_modes |-> s.present_modes]

\* ChooseSwapSurfaceFormat that looks at the format and not at the colour space
ChooseSwapSurfaceFormat_FormatOnly(available_formats) ==
  IF \E k \in 1 .. Len(available_formats) :
       available_formats[k].format = PreferredFormat.format
    THEN available_formats[CHOOSE k \in 1 .. Len(available_formats) :
           /\ available_formats[k].format = PreferredFormat.format
           /\ \A j \in 1 .. (k - 1) :
                available_formats[j].format # PreferredFormat.format]
    ELSE available_formats[1]

\* application.cc:2160-2170
ChooseSwapSurfaceFormat(available_formats) ==
  IF \E k \in 1 .. Len(available_formats) : available_formats[k] = PreferredFormat
    THEN PreferredFormat
    ELSE available_formats[1]

\* ChooseSwapPresentMode that looks at the first entry only
ChooseSwapPresentMode_FirstOnly(available_present_modes) ==
  IF /\ available_present_modes # << >>
     /\ available_present_modes[1] = "VK_PRESENT_MODE_MAILBOX_KHR"
    THEN "VK_PRESENT_MODE_MAILBOX_KHR"
    ELSE "VK_PRESENT_MODE_FIFO_KHR"

\* application.cc:2172-2181
ChooseSwapPresentMode(available_present_modes) ==
  IF \E k \in 1 .. Len(available_present_modes) :
       available_present_modes[k] = "VK_PRESENT_MODE_MAILBOX_KHR"
    THEN "VK_PRESENT_MODE_MAILBOX_KHR"
    ELSE "VK_PRESENT_MODE_FIFO_KHR"

\* std::clamp without the upper bound
Clamp_NoUpper(v, lo, hi) == IF v < lo THEN lo ELSE v

\* std::clamp
Clamp(v, lo, hi) == IF v < lo THEN lo ELSE IF hi < v THEN hi ELSE v

\* ChooseSwapExtent that clamps the framebuffer size whatever currentExtent is
ChooseSwapExtent_AlwaysClamps(capabilities, w, h) ==
  Extent2D(Clamp(w, capabilities.minImageExtent.width,
                 capabilities.maxImageExtent.width),
           Clamp(h, capabilities.minImageExtent.height,
                 capabilities.maxImageExtent.height))

\* application.cc:2183-2203; w x h is what glfwGetFramebufferSize reports
ChooseSwapExtent(capabilities, w, h) ==
  IF capabilities.currentExtent.width # UINT32_MAX
    THEN capabilities.currentExtent
    ELSE Extent2D(Clamp(w, capabilities.minImageExtent.width,
                        capabilities.maxImageExtent.width),
                  Clamp(h, capabilities.minImageExtent.height,
                        capabilities.maxImageExtent.height))

\* the VkSwapchainCreateInfoKHR of CreateSwapChain; application.cc:1279-1303
SwapChainInfo(support, w, h) ==
  [minImageCount |-> ImageCount(support.capabilities.minImageCount,
                                support.capabilities.maxImageCount),
   imageFormat |-> ChooseSwapSurfaceFormat(support.formats).format,
   imageColorSpace |-> ChooseSwapSurfaceFormat(support.formats).colorSpace,
   imageExtent |-> ChooseSwapExtent(support.capabilities, w, h),
   presentMode |-> ChooseSwapPresentMode(support.present_modes)]

\* what CreateSwapChain read: the support details and the framebuffer size
SwapChainInputs(s, w, h) ==
  [support |-> QuerySwapChainSupoort(s, w, h), width |-> w, height |-> h]

\* CreateImageViews: one view per swapchain image, in the stored format;
\* application.cc:1339-1364
CreateImageViews(images, format) ==
  [k \in DOMAIN images |-> [image |-> k, format |-> format]]

\* CreateFrameBuffers that makes one framebuffer per frame in flight
CreateFrameBuffers_PerSlot(views, extent) ==
  [k \in 0 .. (MAX_FRAMES_IN_FLIGHT - 1) |->
     [attachment |-> k, width |-> extent.width, height |-> extent.height]]

\* CreateFrameBuffers: one framebuffer per image view, of the stored extent;
\* application.cc:1366-1387
CreateFrameBuffers(views, extent) ==
  [k \in DOMAIN views |->
     [attachment |-> k, width |-> extent.width, height |-> extent.height]]

\* RecordCommandBuffer has not filled a VkRenderPassBeginInfo in this frame
NoRenderPassInfo == [framebuffer |-> NoImage, extent |-> Extent2D(0, 0)]

\* VkRenderPassBeginInfo whose framebuffer is picked by the slot index
RenderPassInfo_BySlot(image, extent) == [framebuffer |-> current_frame, extent |-> extent]

\* the VkRenderPassBeginInfo of RecordCommandBuffer; application.cc:1764-1769
RenderPassInfo(image, extent) == [framebuffer |-> image, extent |-> extent]

\* objects destroyed by CleanupSwapChain, in its order (application.cc:1832-1842)
CleanupSwapChainObjects == <<"framebuffers", "image_views", "swap_chain">>

\* RecreateSwapChain without the vkDeviceWaitIdle
RecreateSwapChainOps_NoIdle ==
  << [op |-> "destroy", objs |-> CleanupSwapChainObjects],
     [op |-> "create", objs |-> <<"swap_chain">>],
     [op |-> "create", objs |-> <<"image_views">>],
     [op |-> "create", objs |-> <<"framebuffers">>] >>

\* RecreateSwapChain that creates the framebuffers before the image views
RecreateSwapChainOps_FramebuffersFirst ==
  << [op |-> "vkDeviceWaitIdle", objs |-> <<"device">>],
     [op |-> "destroy", objs |-> CleanupSwapChainObjects],
     [op |-> "create", objs |-> <<"swap_chain">>],
     [op |-> "create", objs |-> <<"framebuffers">>],
     [op |-> "create", objs |-> <<"image_views">>] >>

\* RecreateSwapChain that keeps the framebuffers it has
RecreateSwapChainOps_KeepFramebuffers ==
  << [op |-> "vkDeviceWaitIdle", objs |-> <<"device">>],
     [op |-> "destroy", objs |-> <<"image_views", "swap_chain">>],
     [op |-> "create", objs |-> <<"swap_chain">>],
     [op |-> "create", objs |-> <<"image_views">>] >>

\* RecreateSwapChain whose cleanup also destroys the render pass
RecreateSwapChainOps_DestroysRenderPass ==
  << [op |-> "vkDeviceWaitIdle", objs |-> <<"device">>],
     [op |-> "destroy", objs |-> <<"framebuffers", "image_views", "swap_chain", "render_pass">>],
     [op |-> "create", objs |-> <<"swap_chain">>],
     [op |-> "create", objs |-> <<"image_views">>],
     [op |-> "create", objs |-> <<"framebuffers">>] >>

\* application.cc:1823-1829 (after the framebuffer-size loop); calls that
\* follow one another without a blocking or failing call in between form one
\* operation
RecreateSwapChainOps ==
  << [op |-> "vkDeviceWaitIdle", objs |-> <<"device">>],
     [op |-> "destroy", objs |-> CleanupSwapChainObjects],
     [op |-> "create", objs |-> <<"swap_chain">>],
     [op |-> "create", objs |-> <<"image_views">>],
     [op |-> "create", objs |-> <<"framebuffers">>] >>

\* ~Application in the strict reverse of the constructor for the pipeline and
\* the swapchain objects: the pipeline objects before CleanupSwapChain
DestructorObjects_PipelineFirst ==
  <<"imgui", "vertex_buffer", "index_buffer", "sync_objects", "descriptor_pool",
    "command_pool", "graphics_pipeline", "pipeline_layout", "render_pass">>
  \o CleanupSwapChainObjects
  \o <<"device", "surface", "debug_messenger", "instance", "window">>

\* objects destroyed by ~Application, in its order (application.cc:1008-1044)
DestructorObjects ==
  <<"imgui">>
  \o CleanupSwapChainObjects
  \o <<"vertex_buffer", "index_buffer", "sync_objects", "descriptor_pool",
       "command_pool", "graphics_pipeline", "pipeline_layout", "render_pass",
       "device", "surface", "debug_messenger", "instance", "window">>

\* the debug messenger is destroyed only in a build with
\* ENABLE_VALIDATION_LAYER (application.cc:1036-1038)
DestructorObjectsOf(validation) ==
  IF validation THEN DestructorObjects
  ELSE SelectSeq(DestructorObjects, LAMBDA o : o # "debug_messenger")

\* application.cc:1008-1044
DestructorOps ==
  << [op |-> "destroy", objs |-> DestructorObjectsOf(enable_validation)] >>

ObjectNames == {DestructorObjects[k] : k \in 1 .. Len(DestructorObjects)}

SwapChainObjects == {CleanupSwapChainObjects[k] : k \in 1 .. Len(CleanupSwapChainObjects)}

\* the calls of an operation, one log entry per object
Calls(o) == [k \in 1 .. Len(o.objs) |-> [op |-> o.op, obj |-> o.objs[k]]]

(* ----------------------------------------------------------------------- *)
(* Physical device selection: FindQueueFaimilies, EvaluateDevice,          *)
(* PickPhysicalDevice (application.cc:1188-1213, 2018-2126)                *)
(* ----------------------------------------------------------------------- *)

\* longest queue family list FindQueueFaimilies is run on
MaxFamilies == 3

\* longest queue family list of a device that is evaluated
MaxDeviceFamilies == 2

\* largest number of devices vkEnumeratePhysicalDevices reports
MaxDevices == 2

\* VK_NULL_HANDLE, application.h:172; the devices of an enumeration are
\* numbered from 1
VK_NULL_HANDLE == 0

\* std::optional<uint32_t> without a value, application.h:53-54
NoFamily == -1

\* sequences over S of length at most n
SeqUpTo(S, n) == UNION {[1 .. k -> S] : k \in 0 .. n}

\* what vkGetPhysicalDeviceQueueFamilyProperties and
\* vkGetPhysicalDeviceSurfaceSupportKHR report for one family
QueueFamilyProperties == [queueCount : {0, 1}, graphics : BOOLEAN, present : BOOLEAN]

\* QueueFamilies indices{}; application.cc:2098
NoFamilies == [graphics_family |-> NoFamily, present_family |-> NoFamily]

\* QueueFamilies::IsCompleted, application.cc:950-952
IsCompleted(q) == q.graphics_family # NoFamily /\ q.present_family # NoFamily

\* the two assignments of the loop body for the family at index i (families
\* are numbered from 0, the sequence from 1); application.cc:2109-2118
FamilyStep(families, i, q) ==
  [graphics_family |-> IF families[i + 1].queueCount > 0 /\ families[i + 1].graphics
                         THEN i ELSE q.graphics_family,
   present_family |-> IF families[i + 1].queueCount > 0 /\ families[i + 1].present
                        THEN i ELSE q.present_family]

\* the loop of FindQueueFaimilies from index i on; application.cc:2108-2123
RECURSIVE FindQueueFaimiliesFrom(_, _, _)
FindQueueFaimiliesFrom(families, i, q) ==
  IF i >= Len(families) THEN q
  ELSE IF IsCompleted(FamilyStep(families, i, q)) THEN FamilyStep(families, i, q)
  ELSE FindQueueFaimiliesFrom(families, i + 1, FamilyStep(families, i, q))

\* application.cc:2097-2126
FindQueueFaimilies(families) == FindQueueFaimiliesFrom(families, 0, NoFamilies)

\* families with a queue, as the devices under evaluation report them
DeviceFamilies == {f \in QueueFamilyProperties : f.queueCount = 1}

\* a physical device as EvaluateDevice sees it: its type, limit and feature,
\* its queue families, whether it lists the swapchain extension, and the
\* swapchain support of the surface on it
PhysicalDevices ==
  [discrete : BOOLEAN,
   maxImageDimension2D : {4096, 16384},
   geometryShader : BOOLEAN,
   queue_families : SeqUpTo(DeviceFamilies, MaxDeviceFamilies),
   swapchain_extension : BOOLEAN,
   minImageCount : {0, MinImageCount},
   formats : {0, 1},
   present_modes : {0, 1}]

\* SwapChainSupportDetails::IsAdequate, application.cc:954-957
IsAdequate(d) == d.minImageCount > 0 /\ d.formats # 0 /\ d.present_modes # 0

\* score after the device type and the image dimension; application.cc:2027-2032
ScoreProperties(d, s) ==
  (IF d.discrete THEN s + 1000 ELSE s) + d.maxImageDimension2D

\* EvaluateDevice with a geometry-shader test that rejects the device
ScoreGeometry_Rejects(d, s) == IF ~d.geometryShader THEN 0 ELSE s

\* application.cc:2034-2036
ScoreGeometry(d, s) == IF ~d.geometryShader THEN 1 ELSE s

\* application.cc:2038-2042
ScoreQueueFamilies(d, s) ==
  IF ~IsCompleted(FindQueueFaimilies(d.queue_families)) THEN 0 ELSE s

\* application.cc:2044-2059
ScoreExtensions(d, s) == IF ~d.swapchain_extension THEN 0 ELSE s

\* EvaluateDevice whose swapchain test sets the score as the geometry test does
ScoreSwapChain_SetsOne(d, s) == IF ~IsAdequate(d) THEN 1 ELSE s

\* application.cc:2061-2066
ScoreSwapChain(d, s) == IF ~IsAdequate(d) THEN 0 ELSE s

\* application.cc:2018-2073
EvaluateDevice(d) ==
  ScoreSwapChain(d, ScoreExtensions(d, ScoreQueueFamilies(d,
    ScoreGeometry(d, ScoreProperties(d, 0)))))

\* a device that passes the three tests that set the score to 0
Eligible(d) ==
  /\ IsCompleted(FindQueueFaimilies(d.queue_families))
  /\ d.swapchain_extension
  /\ IsAdequate(d)

\* the devices PickPhysicalDevice is run on: one queue family list, every
\* type, limit, feature and extension support
EnumerableDevices ==
  {d \in PhysicalDevices :
     /\ d.queue_families = <<[queueCount |-> 1, graphics |-> TRUE, present |-> TRUE]>>
     /\ d.minImageCount = MinImageCount /\ d.formats = 1 /\ d.present_modes = 1}

\* std::multimap::insert that puts the pair at the end, whatever its key
MultimapInsert_AtEnd(m, e) == Append(m, e)

\* std::multimap<int, VkPhysicalDevice>::insert: the pair goes after every
\* pair whose key is not greater; application.cc:1199-1203
MultimapInsert(m, e) ==
  SubSeq(m, 1, Cardinality({k \in 1 .. Len(m) : m[k].score <= e.score}))
  \o <<e>>
  \o SubSeq(m, Cardinality({k \in 1 .. Len(m) : m[k].score <= e.score}) + 1, Len(m))

\* no device is under evaluation
NoDevice == [discrete |-> FALSE, maxImageDimension2D |-> 0, geometryShader |-> FALSE,
             queue_families |-> << >>, swapchain_extension |-> FALSE,
             minImageCount |-> 0, formats |-> 0, present_modes |-> 0]

(* ----------------------------------------------------------------------- *)
(* Initial state: construction and the prelude of Run have completed       *)
(* ----------------------------------------------------------------------- *)

\* no exception has been thrown
NoMessage == "none"

\* what the loader and the window system offer: the instance extensions GLFW
\* needs, VK_EXT_debug_utils and VK_LAYER_KHRONOS_validation
\* (application.cc:1938-1987)
Runtimes ==
  [window_extensions : BOOLEAN, debug_utils : BOOLEAN, validation_layer : BOOLEAN]

\* a runtime with the debug-utils extension and the validation layer installed
FullRuntime ==
  [window_extensions |-> TRUE, debug_utils |-> TRUE, validation_layer |-> TRUE]

\* vert_shader_moudle and frag_shader_moudle (application.cc:1453-1454),
\* vert_shader_module_ and frag_shader_module_ (pipeline.cc:75-76)
ShaderModules == {"vert", "frag"}

\* the members of Application once the constructor has run;
\* application.cc:983-1006, application.h:207-208
Constructed ==
  /\ ret = "none"
  /\ ops = << >>
  /\ log = << >>
  /\ current_frame = 0
  /\ framebuffer_resized = FALSE
  /\ image_index = NoImage
  /\ result = NoResult
  /\ in_flight_fences = [i \in Slots |-> TRUE]
  /\ semaphores = [s \in Semaphores |-> FALSE]
  /\ command_buffers = [i \in Slots |-> "initial"]
  /\ swap_chain_images = [k \in Images |-> FreeImage]
  /\ objects = [o \in ObjectNames |-> "live"]
  /\ graphics_queue = << >>
  /\ present_queue = << >>
  /\ fb_width \in Dims \ {0}
  /\ fb_height \in Heights \ {0}
  /\ should_close = FALSE
  /\ exc = FALSE
  /\ exit_code = "none"
  /\ what = NoMessage
  /\ cerr = << >>
  /\ surface \in Surfaces
  /\ swap_chain_support = SwapChainInputs(surface, fb_width, fb_height)
  /\ swap_chain_info = SwapChainInfo(swap_chain_support.support, fb_width, fb_height)
  /\ swap_chain_image_format = swap_chain_info.imageFormat
  /\ swap_chain_extent = swap_chain_info.imageExtent
  /\ swap_chain_image_views = CreateImageViews(swap_chain_images, swap_chain_image_format)
  /\ swap_chain_framebuffers = CreateFrameBuffers(swap_chain_image_views, swap_chain_extent)
  /\ render_pass_info = NoRenderPassInfo
  /\ enable_validation = TRUE
  /\ runtime = FullRuntime
  /\ shader_modules = [m \in ShaderModules |-> "destroyed"]

\* the locals of the device selection outside PickPhysicalDevice
SelectionIdle ==
  /\ queue_families = << >>
  /\ family_i = 0
  /\ indices = NoFamilies
  /\ device = NoDevice
  /\ score = 0
  /\ devices = << >>
  /\ device_i = 0
  /\ candidates = << >>

\* application.cc:983-1006, 1046-1094; PickPhysicalDevice has selected a device
Init ==
  /\ pc = "loop"
  /\ Constructed
  /\ sel_pc = "idle"
  /\ SelectionIdle
  /\ physical_device = 1

(* ----------------------------------------------------------------------- *)
(* Exceptions and main                                                     *)
(* ----------------------------------------------------------------------- *)

\* the message of the std::runtime_error thrown at position p of DrawFrame, or
\* by the create call at the head of the op list o
\* (application.cc:1328, 1361, 1384, 1761, 1810, 1874, 1908, 1931)
What(p, o) ==
  IF p = "acquire" THEN "Failed to acquire swap chain image"
  ELSE IF p = "record" THEN "Failed to record command buffer"
  ELSE IF p = "submit" THEN "Failed to submit draw command buffer"
  ELSE IF p = "present" THEN "Failed to present image"
  ELSE IF Head(o).objs[1] = "swap_chain" THEN "Failed to create swap chain"
  ELSE IF Head(o).objs[1] = "image_views" THEN "Failed to create image views"
  ELSE "Failed to create framebuffer"

\* throw std::runtime_error inside app.Run(): the stack unwinds out of the try
\* block of main, which runs ~Application before the handler
\* (application.cc:1008, playground.cc part_010:50-56)
Throw ==
  /\ exc' = TRUE
  /\ what' = What(pc, ops)
  /\ pc' = "exec"
  /\ ops' = DestructorOps
  /\ ret' = "main_return"
  /\ log' = << >>
  /\ image_index' = NoImage
  /\ result' = NoResult
  /\ render_pass_info' = NoRenderPassInfo

(* ----------------------------------------------------------------------- *)
(* Application::Run loop                                                   *)
(* ----------------------------------------------------------------------- *)

\* events glfwPollEvents / glfwWaitEvents can dispatch
WindowEvents ==
  {[type |-> "none", w |-> 0, h |-> 0], [type |-> "close", w |-> 0, h |-> 0]}
  \cup {[type |-> "resize", w |-> w, h |-> h] : w \in Dims, h \in Heights}

\* FramebufferResizeCallback (application.cc:2367-2373) and the close flag
Dispatch(e) ==
  /\ fb_width' = IF e.type = "resize" THEN e.w ELSE fb_width
  /\ fb_height' = IF e.type = "resize" THEN e.h ELSE fb_height
  /\ framebuffer_resized' = IF e.type = "resize" THEN TRUE ELSE framebuffer_resized
  /\ should_close' = IF e.type = "close" THEN TRUE ELSE should_close

\* while (!glfwWindowShouldClose(window_)) { glfwPollEvents(); DrawFrame(); }
\* application.cc:1095-1099
PollEvents ==
  /\ pc = "loop"
  /\ ~should_close
  /\ \E e \in WindowEvents :
       /\ e.type = "resize" => (e.w # fb_width \/ e.h # fb_height)
       /\ Dispatch(e)
  /\ pc' = "wait"
  /\ UNCHANGED <<ret, ops, log, current_frame, cpuLocals, gpuState, objects, exc, what, render_pass_info, exit_code, cerr, swapChainState, staticState>>

\* loop exit, application.cc:1095
RunExit ==
  /\ pc = "loop"
  /\ should_close
  /\ pc' = "run_idle"
  /\ UNCHANGED <<ret, ops, log, current_frame, framebuffer_resized, cpuLocals,
                 gpuState, objects, windowState, exc, what, render_pass_info, exit_code, cerr, swapChainState, staticState>>

\* vkDeviceWaitIdle(device_) at the end of Run, then app goes out of scope
\* application.cc:1101, part_010:51-53
RunWaitIdle ==
  /\ pc = "run_idle"
  /\ graphics_queue = << >>
  /\ present_queue = << >>
  /\ pc' = "exec"
  /\ ops' = DestructorOps
  /\ ret' = "main_return"
  /\ log' = << >>
  /\ UNCHANGED <<current_frame, framebuffer_resized, cpuLocals, gpuState, objects,
                 windowState, exc, what, render_pass_info, exit_code, cerr, swapChainState, staticState>>

\* part_010:50-58
MainReturn ==
  /\ pc = "main_return"
  /\ pc' = "done"
  /\ exit_code' = IF exc THEN "EXIT_FAILURE" ELSE "EXIT_SUCCESS"
  /\ cerr' = IF exc THEN Append(cerr, what) ELSE cerr
  /\ UNCHANGED <<ret, ops, log, current_frame, framebuffer_resized, cpuLocals,
                 gpuState, objects, windowState, exc, what, render_pass_info,
                 swapChainState, staticState>>

(* ----------------------------------------------------------------------- *)
(* Application::DrawFrame                                                  *)
(* ----------------------------------------------------------------------- *)

\* call of RecreateSwapChain() whose return continues at r; application.cc:1814-1815
CallRecreateSwapChain(r) ==
  /\ pc' = "recreate"
  /\ ret' = r

\* DrawFrame that resets the fence right after the wait, before acquire
WaitForFences_ThenReset ==
  /\ pc = "wait"
  /\ in_flight_fences[current_frame]
  /\ in_flight_fences' = [in_flight_fences EXCEPT ![current_frame] = FALSE]
  /\ pc' = "acquire"
  /\ UNCHANGED <<ret, ops, log, current_frame, framebuffer_resized, cpuLocals,
                 semaphores, command_buffers, swap_chain_images, graphics_queue,
                 present_queue, objects, windowState, exc, what, render_pass_info, exit_code, cerr, swapChainState, staticState>>

\* DrawFrame without the fence wait (a wait that returns at once)
WaitForFences_NoWait ==
  /\ pc = "wait"
  /\ pc' = "acquire"
  /\ UNCHANGED <<ret, ops, log, current_frame, framebuffer_resized, cpuLocals,
                 gpuState, objects, windowState, exc, what, render_pass_info, exit_code, cerr, swapChainState, staticState>>

\* vkWaitForFences(device_, 1, &in_flight_fences_[current_frame], VK_TRUE, UINT64_MAX)
\* application.cc:1845-1847
WaitForFences ==
  /\ pc = "wait"
  /\ in_flight_fences[current_frame]
  /\ pc' = "acquire"
  /\ UNCHANGED <<ret, ops, log, current_frame, framebuffer_resized, cpuLocals,
                 gpuState, objects, windowState, exc, what, render_pass_info, exit_code, cerr, swapChainState, staticState>>

\* DrawFrame whose out-of-date branch lacks the return: after the recreation
\* it goes on with the fence reset
AcquireNextImage_NoReturn ==
  /\ pc = "acquire"
  /\ \E r \in SwapchainResults :
       \/ /\ r \in {VK_SUCCESS, VK_SUBOPTIMAL_KHR}
          /\ \E k \in Images :
               /\ swap_chain_images[k].state = "free"
               /\ swap_chain_images' = [swap_chain_images EXCEPT
                     ![k] = [state |-> "acquiring", sem |-> ImageAvailable(current_frame),
                             torn |-> FALSE]]
               /\ image_index' = k
          /\ result' = r
          /\ pc' = "reset_fence"
          /\ UNCHANGED <<ret, ops, log, exc, what, render_pass_info>>
       \/ /\ r = VK_ERROR_OUT_OF_DATE_KHR
          /\ result' = r
          /\ CallRecreateSwapChain("reset_fence")
          /\ UNCHANGED <<ops, log, image_index, swap_chain_images, exc, what, render_pass_info>>
       \/ /\ r = VK_ERROR_OTHER
          /\ Throw
          /\ UNCHANGED swap_chain_images
  /\ UNCHANGED <<current_frame, framebuffer_resized, in_flight_fences, semaphores,
                 command_buffers, graphics_queue, present_queue, objects,
                 windowState, exit_code, cerr, swapChainState, staticState>>

\* DrawFrame that treats a suboptimal acquire like an out-of-date one
AcquireNextImage_SuboptimalAborts ==
  /\ pc = "acquire"
  /\ \E r \in SwapchainResults :
       \/ /\ r \in {VK_SUCCESS}
          /\ \E k \in Images :
               /\ swap_chain_images[k].state = "free"
               /\ swap_chain_images' = [swap_chain_images EXCEPT
                     ![k] = [state |-> "acquiring", sem |-> ImageAvailable(current_frame),
                             torn |-> FALSE]]
               /\ image_index' = k
          /\ result' = r
          /\ pc' = "reset_fence"
          /\ UNCHANGED <<ret, ops, log, exc, what, render_pass_info>>
       \/ /\ r \in {VK_ERROR_OUT_OF_DATE_KHR, VK_SUBOPTIMAL_KHR}
          /\ result' = r
          /\ CallRecreateSwapChain("return")
          /\ UNCHANGED <<ops, log, image_index, swap_chain_images, exc, what, render_pass_info>>
       \/ /\ r = VK_ERROR_OTHER
          /\ Throw
          /\ UNCHANGED swap_chain_images
  /\ UNCHANGED <<current_frame, framebuffer_resized, in_flight_fences, semaphores,
                 command_buffers, graphics_queue, present_queue, objects,
                 windowState, exit_code, cerr, swapChainState, staticState>>

\* vkAcquireNextImageKHR and the handling of its result; application.cc:1863-1876
AcquireNextImage ==
  /\ pc = "acquire"
  /\ \E r \in SwapchainResults :
       \/ /\ r \in {VK_SUCCESS, VK_SUBOPTIMAL_KHR}
          /\ \E k \in Images :
               /\ swap_chain_images[k].state = "free"
               /\ swap_chain_images' = [swap_chain_images EXCEPT
                     ![k] = [state |-> "acquiring", sem |-> ImageAvailable(current_frame),
                             torn |-> FALSE]]
               /\ image_index' = k
          /\ result' = r
          /\ pc' = "reset_fence"
          /\ UNCHANGED <<ret, ops, log, exc, what, render_pass_info>>
       \/ /\ r = VK_ERROR_OUT_OF_DATE_KHR
          /\ result' = r
          /\ CallRecreateSwapChain("return")
          /\ UNCHANGED <<ops, log, image_index, swap_chain_images, exc, what, render_pass_info>>
       \/ /\ r = VK_ERROR_OTHER
          /\ Throw
          /\ UNCHANGED swap_chain_images
  /\ UNCHANGED <<current_frame, framebuffer_resized, in_flight_fences, semaphores,
                 command_buffers, graphics_queue, present_queue, objects,
                 windowState, exit_code, cerr, swapChainState, staticState>>

\* vkResetFences(device_, 1, &in_flight_fences_[current_frame]); application.cc:1878-1879
ResetFences ==
  /\ pc = "reset_fence"
  /\ in_flight_fences' = [in_flight_fences EXCEPT ![current_frame] = FALSE]
  /\ pc' = "record"
  /\ UNCHANGED <<ret, ops, log, current_frame, framebuffer_resized, cpuLocals,
                 semaphores, command_buffers, swap_chain_images, graphics_queue,
                 present_queue, objects, windowState, exc, what, render_pass_info, exit_code, cerr, swapChainState, staticState>>

\* state of a command buffer after vkResetCommandBuffer + recording
Rerecorded(state, ok) ==
  IF state = "pending" THEN "invalid" ELSE IF ok THEN "executable" ELSE "initial"

\* vkResetCommandBuffer + RecordCommandBuffer; application.cc:1881-1884, 1752-1812
RecordCommandBuffer ==
  /\ pc = "record"
  /\ \E ok \in BOOLEAN :
       /\ command_buffers' = [command_buffers EXCEPT
             ![current_frame] = Rerecorded(command_buffers[current_frame], ok)]
       /\ IF ok
            THEN /\ pc' = "submit"
                 /\ render_pass_info' = RenderPassInfo(image_index, swap_chain_extent)
                 /\ UNCHANGED <<ret, ops, log, cpuLocals, exc, what>>
            ELSE Throw
  /\ UNCHANGED <<current_frame, framebuffer_resized, in_flight_fences, semaphores,
                 swap_chain_images, graphics_queue, present_queue, objects,
                 windowState, exit_code, cerr, swapChainState, staticState>>

\* VkSubmitInfo + fence of vkQueueSubmit; application.cc:1886-1905
SubmitInfo(slot, image) ==
  [wait |-> {ImageAvailable(slot)}, cmd |-> slot, signal |-> {RenderFinished(slot)},
   fence |-> slot, image |-> image]

\* vkQueueSubmit(graphics_queue_, 1, &submit_info, in_flight_fences_[current_frame])
\* application.cc:1904-1909
QueueSubmit ==
  /\ pc = "submit"
  /\ \E ok \in BOOLEAN :
       IF ok
         THEN /\ graphics_queue' = Append(graphics_queue, SubmitInfo(current_frame, image_index))
              /\ command_buffers' = [command_buffers EXCEPT ![current_frame] = "pending"]
              /\ pc' = "present"
              /\ UNCHANGED <<ret, ops, log, cpuLocals, exc, what, render_pass_info>>
         ELSE /\ Throw
              /\ UNCHANGED <<graphics_queue, command_buffers>>
  /\ UNCHANGED <<current_frame, framebuffer_resized, in_flight_fences, semaphores,
                 swap_chain_images, present_queue, objects, windowState, exit_code, cerr, swapChainState, staticState>>

\* VkPresentInfoKHR; application.cc:1911-1923
PresentInfo(slot, image) ==
  [wait |-> {RenderFinished(slot)}, image |-> image]

\* DrawFrame whose test after present leaves out framebuffer_resized
QueuePresent_IgnoresResize ==
  /\ pc = "present"
  /\ \E r \in SwapchainResults :
       /\ present_queue' = IF r = VK_ERROR_OTHER THEN present_queue
                           ELSE Append(present_queue, PresentInfo(current_frame, image_index))
       /\ IF r = VK_ERROR_OUT_OF_DATE_KHR \/ r = VK_SUBOPTIMAL_KHR
            THEN /\ result' = r
                 /\ CallRecreateSwapChain("advance")
                 /\ UNCHANGED <<ops, log, image_index, exc, what, render_pass_info>>
            ELSE IF r # VK_SUCCESS
              THEN Throw
              ELSE /\ result' = r
                   /\ pc' = "advance"
                   /\ UNCHANGED <<ret, ops, log, image_index, exc, what, render_pass_info>>
  /\ UNCHANGED <<current_frame, framebuffer_resized, in_flight_fences, semaphores,
                 command_buffers, swap_chain_images, graphics_queue, objects,
                 windowState, exit_code, cerr, swapChainState, staticState>>

\* vkQueuePresentKHR and the handling of its result; application.cc:1925-1933
QueuePresent ==
  /\ pc = "present"
  /\ \E r \in SwapchainResults :
       /\ present_queue' = IF r = VK_ERROR_OTHER THEN present_queue
                           ELSE Append(present_queue, PresentInfo(current_frame, image_index))
       /\ IF r = VK_ERROR_OUT_OF_DATE_KHR \/ r = VK_SUBOPTIMAL_KHR \/ framebuffer_resized
            THEN /\ result' = r
                 /\ CallRecreateSwapChain("advance")
                 /\ UNCHANGED <<ops, log, image_index, exc, what, render_pass_info>>
            ELSE IF r # VK_SUCCESS
              THEN Throw
              ELSE /\ result' = r
                   /\ pc' = "advance"
                   /\ UNCHANGED <<ret, ops, log, image_index, exc, what, render_pass_info>>
  /\ UNCHANGED <<current_frame, framebuffer_resized, in_flight_fences, semaphores,
                 command_buffers, swap_chain_images, graphics_queue, objects,
                 windowState, exit_code, cerr, swapChainState, staticState>>

\* DrawFrame that steps the slot index by the number of frames in flight
AdvanceFrame_KeepsSlot ==
  /\ pc = "advance"
  /\ current_frame' = (current_frame + MAX_FRAMES_IN_FLIGHT) % MAX_FRAMES_IN_FLIGHT
  /\ pc' = "loop"
  /\ image_index' = NoImage
  /\ result' = NoResult
  /\ render_pass_info' = NoRenderPassInfo
  /\ UNCHANGED <<ret, ops, log, framebuffer_resized, gpuState, objects,
                 windowState, exc, what, exit_code, cerr, swapChainState, staticState>>

\* current_frame = (current_frame + 1) % MAX_FRAMES_IN_FLIGHT; application.cc:1935-1936
AdvanceFrame ==
  /\ pc = "advance"
  /\ current_frame' = (current_frame + 1) % MAX_FRAMES_IN_FLIGHT
  /\ pc' = "loop"
  /\ image_index' = NoImage
  /\ result' = NoResult
  /\ render_pass_info' = NoRenderPassInfo
  /\ UNCHANGED <<ret, ops, log, framebuffer_resized, gpuState, objects,
                 windowState, exc, what, exit_code, cerr, swapChainState, staticState>>

\* return of a DrawFrame that was aborted after acquire; application.cc:1871-1872
ReturnFromDrawFrame ==
  /\ pc = "return"
  /\ pc' = "loop"
  /\ image_index' = NoImage
  /\ result' = NoResult
  /\ render_pass_info' = NoRenderPassInfo
  /\ UNCHANGED <<ret, ops, log, current_frame, framebuffer_resized,
                 gpuState, objects, windowState, exc, what, exit_code, cerr, swapChainState, staticState>>

(* ----------------------------------------------------------------------- *)
(* Application::RecreateSwapChain, CleanupSwapChain, ~Application          *)
(* ----------------------------------------------------------------------- *)

\* glfwGetFramebufferSize(window_, &width, &height) and the first test of the
\* loop condition on the size just read; application.cc:1815-1818
RecreateGetSize ==
  /\ pc = "recreate"
  /\ IF fb_width = 0 \/ fb_height = 0
       THEN /\ pc' = "recreate_wait"
            /\ UNCHANGED <<ops, log>>
       ELSE /\ pc' = "exec"
            /\ ops' = RecreateSwapChainOps
            /\ log' = << >>
  /\ UNCHANGED <<ret, current_frame, framebuffer_resized, image_index, result,
                 gpuState, objects, windowState, exc, what, render_pass_info, exit_code, cerr, swapChainState, staticState>>

\* one iteration of while (width == 0 || height == 0): the size is read, then
\* glfwWaitEvents() blocks until an event is dispatched, then the condition is
\* tested on the size read before the wait; application.cc:1818-1821
RecreateWaitEvents ==
  /\ pc = "recreate_wait"
  /\ \E e \in WindowEvents :
       /\ e.type = "resize" => (e.w # fb_width \/ e.h # fb_height)
       /\ Dispatch(e)
  /\ IF fb_width = 0 \/ fb_height = 0
       THEN /\ pc' = "recreate_wait"
            /\ UNCHANGED <<ops, log>>
       ELSE /\ pc' = "exec"
            /\ ops' = RecreateSwapChainOps
            /\ log' = << >>
  /\ UNCHANGED <<ret, current_frame, image_index, result, gpuState, objects,
                 exc, what, render_pass_info, exit_code, cerr, swapChainState, staticState>>

\* CreateSwapChain that builds the create info from the support details the
\* previous call queried
CreateSwapChain_CachedSupport ==
  /\ swap_chain_support' = SwapChainInputs(surface, fb_width, fb_height)
  /\ swap_chain_info' = SwapChainInfo(swap_chain_support.support,
                                      swap_chain_support.width, swap_chain_support.height)
  /\ swap_chain_images' = [k \in Images |-> FreeImage]
  /\ swap_chain_image_format' = swap_chain_info'.imageFormat
  /\ swap_chain_extent' = swap_chain_info'.imageExtent

\* a successful CreateSwapChain: it queries the support details, builds the
\* create info from them and stores the images, the format and the extent;
\* application.cc:1278-1337
CreateSwapChain ==
  /\ swap_chain_support' = SwapChainInputs(surface, fb_width, fb_height)
  /\ swap_chain_info' = SwapChainInfo(swap_chain_support'.support, fb_width, fb_height)
  /\ swap_chain_images' = [k \in Images |-> FreeImage]
  /\ swap_chain_image_format' = swap_chain_info'.imageFormat
  /\ swap_chain_extent' = swap_chain_info'.imageExtent

\* vkDestroy* on an object; destroying a handle twice is invalid
Destroyed(state) == IF state = "live" THEN "destroyed" ELSE "destroyed_twice"

\* vkDeviceWaitIdle(device_) in RecreateSwapChain; application.cc:1823
ExecWaitIdle ==
  /\ pc = "exec"
  /\ ops # << >>
  /\ Head(ops).op = "vkDeviceWaitIdle"
  /\ graphics_queue = << >>
  /\ present_queue = << >>
  /\ ops' = Tail(ops)
  /\ log' = log \o Calls(Head(ops))
  /\ UNCHANGED <<pc, ret, current_frame, framebuffer_resized, cpuLocals, gpuState,
                 objects, windowState, exc, what, render_pass_info, exit_code, cerr, swapChainState, staticState>>

\* the destroy calls of operation o are valid usage: every handle is live and
\* the device has no work that uses it (Vulkan: an object must not be
\* destroyed while a queue still uses it, nor twice)
ValidDestroy(o) ==
  /\ graphics_queue = << >>
  /\ present_queue = << >>
  /\ \A k \in 1 .. Len(o.objs) : objects[o.objs[k]] = "live"

\* what a sequence of destroy calls can do: it returns, or, on invalid usage,
\* whatever the driver makes of it, the end of the process included
DestroyOutcomes(o) ==
  IF ValidDestroy(o) THEN {"returns"} ELSE {"returns", "crashes"}

\* the vkDestroy* / vkFree* calls of CleanupSwapChain (application.cc:1832-1842)
\* inside RecreateSwapChain, or of the whole body of ~Application
\* (application.cc:1008-1044)
ExecDestroy ==
  /\ pc = "exec"
  /\ ops # << >>
  /\ Head(ops).op = "destroy"
  /\ \E outcome \in DestroyOutcomes(Head(ops)) :
       IF outcome = "returns"
         THEN /\ objects' = [o \in ObjectNames |->
                   IF \E k \in 1 .. Len(Head(ops).objs) : Head(ops).objs[k] = o
                     THEN Destroyed(objects[o]) ELSE objects[o]]
              /\ ops' = Tail(ops)
              /\ log' = log \o Calls(Head(ops))
              /\ UNCHANGED pc
         ELSE /\ pc' = "crashed"
              /\ UNCHANGED <<objects, ops, log>>
  /\ UNCHANGED <<ret, current_frame, framebuffer_resized, cpuLocals, gpuState,
                 windowState, exc, what, render_pass_info, exit_code, cerr, swapChainState, staticState>>

\* CreateSwapChain, CreateImageViews or CreateFrameBuffers inside
\* RecreateSwapChain; each throws when the API rejects the creation
\* (application.cc:1827-1829, 1278-1387)
ExecCreate ==
  /\ pc = "exec"
  /\ ops # << >>
  /\ Head(ops).op = "create"
  /\ \E ok \in BOOLEAN :
       IF ok
         THEN /\ objects' = [objects EXCEPT ![Head(ops).objs[1]] = "live"]
              /\ IF Head(ops).objs[1] = "swap_chain"
                   THEN /\ CreateSwapChain
                        /\ UNCHANGED <<swap_chain_image_views, swap_chain_framebuffers>>
                   ELSE IF Head(ops).objs[1] = "image_views"
                     THEN /\ swap_chain_image_views' =
                               CreateImageViews(swap_chain_images, swap_chain_image_format)
                          /\ UNCHANGED <<swap_chain_support, swap_chain_info,
                                         swap_chain_images, swap_chain_image_format,
                                         swap_chain_extent, swap_chain_framebuffers>>
                     ELSE /\ swap_chain_framebuffers' =
                               CreateFrameBuffers(swap_chain_image_views, swap_chain_extent)
                          /\ UNCHANGED <<swap_chain_support, swap_chain_info,
                                         swap_chain_images, swap_chain_image_format,
                                         swap_chain_extent, swap_chain_image_views>>
              /\ ops' = Tail(ops)
              /\ log' = log \o Calls(Head(ops))
              /\ UNCHANGED <<pc, ret, cpuLocals, exc, what, render_pass_info>>
         ELSE /\ Throw
              /\ UNCHANGED <<objects, swap_chain_images, swapChainState>>
  /\ UNCHANGED <<current_frame, framebuffer_resized, in_flight_fences, semaphores,
                 command_buffers, graphics_queue, present_queue, windowState,
                 exit_code, cerr, staticState>>

\* return of RecreateSwapChain (application.cc:1830) or of ~Application
\* (application.cc:1044)
ExecReturn ==
  /\ pc = "exec"
  /\ ops = << >>
  /\ pc' = ret
  /\ ret' = "none"
  /\ log' = << >>
  /\ UNCHANGED <<ops, current_frame, framebuffer_resized, image_index, result,
                 gpuState, objects, windowState, exc, what, render_pass_info, exit_code, cerr, swapChainState, staticState>>

(* ----------------------------------------------------------------------- *)
(* Device side: what the calls above ask the GPU and the presentation      *)
(* engine to do                                                            *)
(* ----------------------------------------------------------------------- *)

\* the signal operation of vkAcquireNextImageKHR: the presentation engine
\* releases image k and signals the semaphore passed to acquire
\* (application.cc:1864-1866)
AcquireSignal(k) ==
  /\ swap_chain_images[k].state = "acquiring"
  /\ semaphores' = [semaphores EXCEPT ![swap_chain_images[k].sem] = TRUE]
  /\ swap_chain_images' = [swap_chain_images EXCEPT ![k].state = "acquired"]
  /\ UNCHANGED <<pc, ret, ops, log, current_frame, framebuffer_resized, cpuLocals,
                 in_flight_fences, command_buffers, graphics_queue, present_queue,
                 objects, windowState, exc, what, render_pass_info, exit_code, cerr, swapChainState, staticState>>

\* the GPU runs the oldest submission of the graphics queue: it waits on the
\* wait semaphores, writes the colour attachment (tearing an image the
\* application does not own yet), signals the signal semaphores and the fence (the vkQueueSubmit of application.cc:1904-1905)
GpuExecute ==
  /\ graphics_queue # << >>
  /\ LET s == Head(graphics_queue) IN
       /\ \A w \in s.wait : semaphores[w]
       /\ semaphores' = [h \in Semaphores |->
                           IF h \in s.signal THEN TRUE
                           ELSE IF h \in s.wait THEN FALSE
                           ELSE semaphores[h]]
       /\ in_flight_fences' = [in_flight_fences EXCEPT ![s.fence] = TRUE]
       /\ swap_chain_images' =
            IF s.image \in Images
              THEN [swap_chain_images EXCEPT ![s.image] =
                      IF @.state = "acquired" THEN [@ EXCEPT !.state = "rendered"]
                      ELSE [@ EXCEPT !.torn = TRUE]]
              ELSE swap_chain_images
       /\ command_buffers' = [command_buffers EXCEPT ![s.cmd] =
            IF @ = "pending" /\ \A j \in 2 .. Len(graphics_queue) : graphics_queue[j].cmd # s.cmd
              THEN "executable" ELSE @]
  /\ graphics_queue' = Tail(graphics_queue)
  /\ UNCHANGED <<pc, ret, ops, log, current_frame, framebuffer_resized, cpuLocals,
                 present_queue, objects, windowState, exc, what, render_pass_info, exit_code, cerr, swapChainState, staticState>>

\* the presentation engine takes the oldest present request: it waits on the
\* request's semaphores and shows the image, which then becomes available
\* again; an image that is not rendered yet is shown torn
\* (the vkQueuePresentKHR of application.cc:1925)
PresentExecute ==
  /\ present_queue # << >>
  /\ LET p == Head(present_queue) IN
       /\ \A w \in p.wait : semaphores[w]
       /\ semaphores' = [h \in Semaphores |-> IF h \in p.wait THEN FALSE ELSE semaphores[h]]
       /\ swap_chain_images' =
            IF p.image \in Images
              THEN [swap_chain_images EXCEPT ![p.image] =
                      IF @.state = "rendered" THEN FreeImage
                      ELSE [@ EXCEPT !.torn = TRUE]]
              ELSE swap_chain_images
  /\ present_queue' = Tail(present_queue)
  /\ UNCHANGED <<pc, ret, ops, log, current_frame, framebuffer_resized, cpuLocals,
                 in_flight_fences, command_buffers, graphics_queue, objects,
                 windowState, exc, what, render_pass_info, exit_code, cerr, swapChainState, staticState>>

(* ----------------------------------------------------------------------- *)
(* Specification                                                           *)
(* ----------------------------------------------------------------------- *)

Next ==
  \/ PollEvents
  \/ RunExit
  \/ RunWaitIdle
  \/ MainReturn
  \/ WaitForFences
  \/ AcquireNextImage
  \/ ResetFences
  \/ RecordCommandBuffer
  \/ QueueSubmit
  \/ QueuePresent
  \/ AdvanceFrame
  \/ ReturnFromDrawFrame
  \/ RecreateGetSize
  \/ RecreateWaitEvents
  \/ ExecWaitIdle
  \/ ExecDestroy
  \/ ExecCreate
  \/ ExecReturn
  \/ \E k \in Images : AcquireSignal(k)
  \/ GpuExecute
  \/ PresentExecute

Spec == Init /\ [][Next]_vars

\* steps of the application thread that do not wait for the window system
\* (glfwWaitEvents, RecreateWaitEvents, returns only when an event arrives)
ThreadStep ==
  \/ PollEvents
  \/ RunExit
  \/ RunWaitIdle
  \/ MainReturn
  \/ WaitForFences
  \/ AcquireNextImage
  \/ ResetFences
  \/ RecordCommandBuffer
  \/ QueueSubmit
  \/ QueuePresent
  \/ AdvanceFrame
  \/ ReturnFromDrawFrame
  \/ RecreateGetSize
  \/ ExecWaitIdle
  \/ ExecDestroy
  \/ ExecCreate
  \/ ExecReturn

\* the thread runs when it can, the GPU completes submitted work, the
\* presentation engine releases acquired images and takes present requests;
\* the surface enters no guard, so progress is checked on one surface
FairInit == Init /\ surface.extent_defined

FairSpec ==
  /\ FairInit
  /\ [][Next]_vars
  /\ WF_vars(ThreadStep)
  /\ WF_vars(GpuExecute)
  /\ WF_vars(PresentExecute)
  /\ WF_vars(\E k \in Images : AcquireSignal(k))

(* ----------------------------------------------------------------------- *)
(* Physical device selection, run on its inputs: the members the selection *)
(* does not use are held fixed                                             *)
(* ----------------------------------------------------------------------- *)

\* the constructor is at PickPhysicalDevice (application.cc:990)
InSelection ==
  /\ pc = "construct"
  /\ Constructed
  /\ fb_width = MaxDim
  /\ surface.extent_defined

\* FindQueueFaimilies is called on a device with any list of queue families
QueueFamilyInit ==
  /\ InSelection
  /\ sel_pc = "FindQueueFaimilies"
  /\ queue_families \in SeqUpTo(QueueFamilyProperties, MaxFamilies)
  /\ family_i = 0
  /\ indices = NoFamilies
  /\ device = NoDevice
  /\ score = 0
  /\ devices = << >>
  /\ device_i = 0
  /\ candidates = << >>
  /\ physical_device = VK_NULL_HANDLE

\* one iteration of the loop that ends in the break; application.cc:2108-2122
FindQueueFaimiliesBreak ==
  /\ sel_pc = "FindQueueFaimilies"
  /\ family_i < Len(queue_families)
  /\ IsCompleted(FamilyStep(queue_families, family_i, indices))
  /\ indices' = FamilyStep(queue_families, family_i, indices)
  /\ sel_pc' = "return"
  /\ UNCHANGED <<appState, setupState, queue_families, family_i, device, score, devices, device_i,
                 candidates, physical_device>>

\* one iteration of the loop that goes on to ++i; application.cc:2108-2123
FindQueueFaimiliesNext ==
  /\ sel_pc = "FindQueueFaimilies"
  /\ family_i < Len(queue_families)
  /\ ~IsCompleted(FamilyStep(queue_families, family_i, indices))
  /\ indices' = FamilyStep(queue_families, family_i, indices)
  /\ family_i' = family_i + 1
  /\ UNCHANGED <<appState, setupState, sel_pc, queue_families, device, score, devices, device_i,
                 candidates, physical_device>>

\* the loop condition fails; application.cc:2108, 2125
FindQueueFaimiliesEnd ==
  /\ sel_pc = "FindQueueFaimilies"
  /\ family_i >= Len(queue_families)
  /\ sel_pc' = "return"
  /\ UNCHANGED <<appState, setupState, queue_families, family_i, indices, device, score, devices,
                 device_i, candidates, physical_device>>

QueueFamilyNext ==
  \/ FindQueueFaimiliesBreak
  \/ FindQueueFaimiliesNext
  \/ FindQueueFaimiliesEnd

QueueFamilySpec == QueueFamilyInit /\ [][QueueFamilyNext]_vars

\* EvaluateDevice is called on any device
EvaluateInit ==
  /\ InSelection
  /\ sel_pc = "properties"
  /\ device \in PhysicalDevices
  /\ score = 0
  /\ queue_families = << >>
  /\ family_i = 0
  /\ indices = NoFamilies
  /\ devices = << >>
  /\ device_i = 0
  /\ candidates = << >>
  /\ physical_device = VK_NULL_HANDLE

\* application.cc:2027-2032
EvaluateProperties ==
  /\ sel_pc = "properties"
  /\ score' = ScoreProperties(device, score)
  /\ sel_pc' = "geometry"
  /\ UNCHANGED <<appState, setupState, queue_families, family_i, indices, device, devices, device_i,
                 candidates, physical_device>>

\* application.cc:2034-2036
EvaluateGeometry ==
  /\ sel_pc = "geometry"
  /\ score' = ScoreGeometry(device, score)
  /\ sel_pc' = "queue_families"
  /\ UNCHANGED <<appState, setupState, queue_families, family_i, indices, device, devices, device_i,
                 candidates, physical_device>>

\* application.cc:2038-2042
EvaluateQueueFamilies ==
  /\ sel_pc = "queue_families"
  /\ queue_families' = device.queue_families
  /\ indices' = FindQueueFaimilies(device.queue_families)
  /\ score' = ScoreQueueFamilies(device, score)
  /\ sel_pc' = "extensions"
  /\ UNCHANGED <<appState, setupState, family_i, device, devices, device_i, candidates,
                 physical_device>>

\* application.cc:2044-2059
EvaluateExtensions ==
  /\ sel_pc = "extensions"
  /\ score' = ScoreExtensions(device, score)
  /\ sel_pc' = "swapchain"
  /\ UNCHANGED <<appState, setupState, queue_families, family_i, indices, device, devices, device_i,
                 candidates, physical_device>>

\* application.cc:2061-2072
EvaluateSwapChain ==
  /\ sel_pc = "swapchain"
  /\ score' = ScoreSwapChain(device, score)
  /\ sel_pc' = "return"
  /\ UNCHANGED <<appState, setupState, queue_families, family_i, indices, device, devices, device_i,
                 candidates, physical_device>>

EvaluateNext ==
  \/ EvaluateProperties
  \/ EvaluateGeometry
  \/ EvaluateQueueFamilies
  \/ EvaluateExtensions
  \/ EvaluateSwapChain

EvaluateSpec == EvaluateInit /\ [][EvaluateNext]_vars

\* PickPhysicalDevice is called with any enumeration of devices
PickInit ==
  /\ InSelection
  /\ sel_pc = "enumerate"
  /\ devices \in SeqUpTo(EnumerableDevices, MaxDevices)
  /\ device_i = 0
  /\ candidates = << >>
  /\ physical_device = VK_NULL_HANDLE
  /\ queue_families = << >>
  /\ family_i = 0
  /\ indices = NoFamilies
  /\ device = NoDevice
  /\ score = 0

\* vkEnumeratePhysicalDevices and the test of the count; application.cc:1189-1197
PickEnumerate ==
  /\ sel_pc = "enumerate"
  /\ sel_pc' = IF Len(devices) = 0 THEN "throw" ELSE "evaluate"
  /\ UNCHANGED <<appState, setupState, queue_families, family_i, indices, device, score, devices,
                 device_i, candidates, physical_device>>

\* one iteration of the loop over the devices; application.cc:1200-1203
PickEvaluate ==
  /\ sel_pc = "evaluate"
  /\ device_i < Len(devices)
  /\ device' = devices[device_i + 1]
  /\ score' = EvaluateDevice(devices[device_i + 1])
  /\ candidates' = MultimapInsert(candidates, [score |-> score', device |-> device_i + 1])
  /\ device_i' = device_i + 1
  /\ UNCHANGED <<appState, setupState, sel_pc, queue_families, family_i, indices, devices,
                 physical_device>>

\* the test of the best candidate and of the handle; application.cc:1205-1212
PickSelect ==
  /\ sel_pc = "evaluate"
  /\ device_i = Len(devices)
  /\ physical_device' = IF candidates[Len(candidates)].score > 0
                           THEN candidates[Len(candidates)].device
                           ELSE physical_device
  /\ sel_pc' = IF physical_device' = VK_NULL_HANDLE THEN "throw" ELSE "return"
  /\ UNCHANGED <<appState, setupState, queue_families, family_i, indices, device, score, devices,
                 device_i, candidates>>

PickNext ==
  \/ PickEnumerate
  \/ PickEvaluate
  \/ PickSelect

PickSpec == PickInit /\ [][PickNext]_vars

(* ----------------------------------------------------------------------- *)
(* main and Application::Application (part_010:42-59,                      *)
(* application.cc:983-1006, 1046-1276)                                     *)
(* ----------------------------------------------------------------------- *)

\* the calls of the constructor, in its order; application.cc:983-1006
ConstructorSteps ==
  <<"CreateWindow", "CreateInstance", "SetupDebugMessenger", "CreateSurface",
    "PickPhysicalDevice", "CreateLogicalDevice", "CreateSwapChain",
    "CreateImageViews", "CreateRenderPass", "CreatePipelineLayout",
    "CreateGraphicsPipeline", "CreateFrameBuffers", "CreateCommandPool",
    "CreateCommandBuffers", "CreateVertexBuffer", "CreateIndexBuffer",
    "CreateDescriptorPool", "CreateSyncObjects">>

StepNames == {ConstructorSteps[k] : k \in 1 .. Len(ConstructorSteps)}

\* position of step s in the constructor
StepIndex(s) == CHOOSE k \in 1 .. Len(ConstructorSteps) : ConstructorSteps[k] = s

\* where the thread is after step s returned: SetupDebugMessenger is called
\* only in a build with ENABLE_VALIDATION_LAYER (application.cc:987-989), and
\* main calls Run after the constructor (part_010:51-52)
StepAfter(s, validation) ==
  LET k == StepIndex(s) IN
    IF k = Len(ConstructorSteps) THEN "Run"
    ELSE IF ConstructorSteps[k + 1] = "SetupDebugMessenger" /\ ~validation
      THEN ConstructorSteps[k + 2]
      ELSE ConstructorSteps[k + 1]

\* the instance extensions FindInstanceExtensions asks for: those of GLFW and,
\* whatever ENABLE_VALIDATION_LAYER is, VK_EXT_debug_utils
\* (application.cc:1940-1953)
FindInstanceExtensions(validation) == {"glfw", "VK_EXT_debug_utils"}

\* the layers FindInstanceLayers asks for, whatever ENABLE_VALIDATION_LAYER is
\* (application.cc:1973-1974)
FindInstanceLayers(validation) == {"VK_LAYER_KHRONOS_validation"}

\* vkEnumerateInstanceExtensionProperties on runtime r
AvailableExtensions(r) ==
  (IF r.window_extensions THEN {"glfw"} ELSE {})
  \cup (IF r.debug_utils THEN {"VK_EXT_debug_utils"} ELSE {})

\* vkEnumerateInstanceLayerProperties on runtime r
AvailableLayers(r) ==
  IF r.validation_layer THEN {"VK_LAYER_KHRONOS_validation"} ELSE {}

\* application.cc:2221-2232
CheckExtensionSupport(available_extensions, required_extensions) ==
  required_extensions \ available_extensions = {}

\* application.cc:2234-2244
CheckLayersSupport(available_layers, required_layers) ==
  required_layers \ available_layers = {}

\* value-initialised VkSwapchainCreateInfoKHR and support details
NoSwapChainInfo ==
  [minImageCount |-> 0, imageFormat |-> "VK_FORMAT_UNDEFINED",
   imageColorSpace |-> "VK_COLOR_SPACE_SRGB_NONLINEAR_KHR",
   imageExtent |-> Extent2D(0, 0), presentMode |-> "VK_PRESENT_MODE_IMMEDIATE_KHR"]

NoSwapChainSupport ==
  [support |-> [capabilities |-> [minImageCount |-> 0, maxImageCount |-> 0,
                                  currentExtent |-> Extent2D(0, 0),
                                  minImageExtent |-> Extent2D(0, 0),
                                  maxImageExtent |-> Extent2D(0, 0)],
                formats |-> << >>, present_modes |-> << >>],
   width |-> 0, height |-> 0]

\* the locals of the device selection
selectionLocals == <<sel_pc, queue_families, family_i, indices, device, score,
                     devices, device_i, candidates>>

\* what no step of the constructor writes
untouchedBySetup == <<ret, ops, current_frame, framebuffer_resized, image_index,
                      result, semaphores, graphics_queue, present_queue,
                      should_close, exit_code, cerr, render_pass_info, surface,
                      selectionLocals, enable_validation, runtime>>

\* main has been entered and no member of Application exists yet
\* (part_010:42-50, application.h:165-208)
MainInit ==
  /\ pc = "CreateWindow"
  /\ ret = "none"
  /\ ops = << >>
  /\ log = << >>
  /\ current_frame = 0
  /\ framebuffer_resized = FALSE
  /\ image_index = NoImage
  /\ result = NoResult
  /\ in_flight_fences = [i \in Slots |-> FALSE]
  /\ semaphores = [s \in Semaphores |-> FALSE]
  /\ command_buffers = [i \in Slots |-> "initial"]
  /\ swap_chain_images = [k \in Images |-> [FreeImage EXCEPT !.state = "none"]]
  /\ objects = [o \in ObjectNames |-> "none"]
  /\ graphics_queue = << >>
  /\ present_queue = << >>
  /\ fb_width = 0
  /\ fb_height = 0
  /\ should_close = FALSE
  /\ exc = FALSE
  /\ exit_code = "none"
  /\ what = NoMessage
  /\ cerr = << >>
  /\ surface \in Surfaces
  /\ swap_chain_support = NoSwapChainSupport
  /\ swap_chain_info = NoSwapChainInfo
  /\ swap_chain_image_format = NoSwapChainInfo.imageFormat
  /\ swap_chain_extent = NoSwapChainInfo.imageExtent
  /\ swap_chain_image_views = << >>
  /\ swap_chain_framebuffers = << >>
  /\ render_pass_info = NoRenderPassInfo
  /\ sel_pc = "idle"
  /\ SelectionIdle
  /\ physical_device = VK_NULL_HANDLE
  /\ enable_validation \in BOOLEAN
  /\ runtime \in Runtimes
  /\ shader_modules = [m \in ShaderModules |-> "none"]

\* throw std::runtime_error inside the constructor: the object does not exist
\* yet, so ~Application is not run and the stack unwinds into the handler of
\* main (part_010:50-56)
ThrowInConstructor(message) ==
  /\ exc' = TRUE
  /\ what' = message
  /\ pc' = "main_return"

\* the end of a step that creates obj: the handle is live and the constructor
\* goes on, or the API rejected the creation and the step throws
Created(s, obj, ok, message) ==
  IF ok
    THEN /\ objects' = IF obj \in ObjectNames
                         THEN [objects EXCEPT ![obj] = "live"] ELSE objects
         /\ log' = Append(log, [op |-> "create", obj |-> obj])
         /\ pc' = StepAfter(s, enable_validation)
         /\ UNCHANGED <<exc, what>>
    ELSE /\ ThrowInConstructor(message)
         /\ log' = Append(log, [op |-> "rejected", obj |-> obj])
         /\ UNCHANGED objects

\* application.cc:1104-1118; the window is WIDTH x HEIGHT
CreateWindow ==
  /\ pc = "CreateWindow"
  /\ \E ok \in BOOLEAN :
       /\ Created("CreateWindow", "window", ok, "Failed to create the GLFW window")
       /\ fb_width' = IF ok THEN MaxDim ELSE fb_width
       /\ fb_height' = IF ok THEN MaxDim ELSE fb_height
  /\ UNCHANGED <<untouchedBySetup, in_flight_fences, command_buffers,
                 swap_chain_images, swapChainState, physical_device, shader_modules>>

\* application.cc:1120-1162 with FindInstanceExtensions and FindInstanceLayers
\* (application.cc:1938-1987), which throw before vkCreateInstance is called
CreateInstance ==
  /\ pc = "CreateInstance"
  /\ IF ~CheckExtensionSupport(AvailableExtensions(runtime),
                               FindInstanceExtensions(enable_validation))
       THEN Created("CreateInstance", "instance", FALSE,
                    "Find not supported instance extension(s)")
       ELSE IF ~CheckLayersSupport(AvailableLayers(runtime),
                                   FindInstanceLayers(enable_validation))
         THEN Created("CreateInstance", "instance", FALSE, "Find not supported layer(s)")
         ELSE \E ok \in BOOLEAN :
                Created("CreateInstance", "instance", ok, "Failed to create instance")
  /\ UNCHANGED <<untouchedBySetup, in_flight_fences, command_buffers,
                 swap_chain_images, swapChainState, physical_device, shader_modules,
                 fb_width, fb_height>>

\* application.cc:1164-1182, called when ENABLE_VALIDATION_LAYER
\* (application.cc:987-989)
SetupDebugMessenger ==
  /\ pc = "SetupDebugMessenger"
  /\ \E ok \in BOOLEAN :
       Created("SetupDebugMessenger", "debug_messenger", ok,
               "Failed to set up debug messenger")
  /\ UNCHANGED <<untouchedBySetup, in_flight_fences, command_buffers,
                 swap_chain_images, swapChainState, physical_device, shader_modules,
                 fb_width, fb_height>>

\* application.cc:1184-1186: the result of glfwCreateWindowSurface is dropped,
\* so the constructor goes on with a null surface_ when the call fails
CreateSurface ==
  /\ pc = "CreateSurface"
  /\ \E ok \in BOOLEAN :
       /\ objects' = [objects EXCEPT !["surface"] = IF ok THEN "live" ELSE "none"]
       /\ log' = Append(log, [op |-> IF ok THEN "create" ELSE "rejected",
                              obj |-> "surface"])
  /\ pc' = StepAfter("CreateSurface", enable_validation)
  /\ UNCHANGED <<untouchedBySetup, in_flight_fences, command_buffers,
                 swap_chain_images, swapChainState, physical_device, shader_modules,
                 fb_width, fb_height, exc, what>>

\* what PickPhysicalDevice can do: with a live surface it finds no device, no
\* suitable device or a device; vkGetPhysicalDeviceSurfaceSupportKHR on a null
\* surface is invalid usage, and then no present family is found or the
\* process ends (application.cc:1188-1213, 2097-2126)
PickOutcomes ==
  IF objects["surface"] = "live"
    THEN {"no_devices", "no_suitable_device", "selected"}
    ELSE {"no_suitable_device", "crashes"}

\* application.cc:1188-1213
PickPhysicalDevice ==
  /\ pc = "PickPhysicalDevice"
  /\ \E outcome \in PickOutcomes :
       IF outcome = "crashes"
         THEN /\ pc' = "crashed"
              /\ UNCHANGED <<objects, log, exc, what, physical_device>>
         ELSE /\ Created("PickPhysicalDevice", "physical_device", outcome = "selected",
                         IF outcome = "no_devices"
                           THEN "Failed to find GPUs with Vulkan support"
                           ELSE "Failed to find a suitable GPU")
              /\ physical_device' = IF outcome = "selected" THEN 1 ELSE physical_device
  /\ UNCHANGED <<untouchedBySetup, in_flight_fences, command_buffers,
                 swap_chain_images, swapChainState, shader_modules,
                 fb_width, fb_height>>

\* application.cc:1215-1276: FindInstanceLayers throws before vkCreateDevice is
\* called; the selected device has the swapchain extension
CreateLogicalDevice ==
  /\ pc = "CreateLogicalDevice"
  /\ IF ~CheckLayersSupport(AvailableLayers(runtime),
                            FindInstanceLayers(enable_validation))
       THEN Created("CreateLogicalDevice", "device", FALSE, "Find not supported layer(s)")
       ELSE \E ok \in BOOLEAN :
              Created("CreateLogicalDevice", "device", ok,
                      "Failed to create logical device")
  /\ UNCHANGED <<untouchedBySetup, in_flight_fences, command_buffers,
                 swap_chain_images, swapChainState, physical_device, shader_modules,
                 fb_width, fb_height>>

\* application.cc:1278-1337 as a step of the constructor
ConstructSwapChain ==
  /\ pc = "CreateSwapChain"
  /\ \E ok \in BOOLEAN :
       /\ Created("CreateSwapChain", "swap_chain", ok, "Failed to create swap chain")
       /\ IF ok THEN CreateSwapChain
          ELSE UNCHANGED <<swap_chain_support, swap_chain_info, swap_chain_images,
                           swap_chain_image_format, swap_chain_extent>>
  /\ UNCHANGED <<untouchedBySetup, in_flight_fences, command_buffers,
                 swap_chain_image_views, swap_chain_framebuffers, physical_device,
                 shader_modules, fb_width, fb_height>>

\* application.cc:1339-1364 as a step of the constructor
ConstructImageViews ==
  /\ pc = "CreateImageViews"
  /\ \E ok \in BOOLEAN :
       /\ Created("CreateImageViews", "image_views", ok, "Failed to create image views")
       /\ swap_chain_image_views' =
            IF ok THEN CreateImageViews(swap_chain_images, swap_chain_image_format)
            ELSE swap_chain_image_views
  /\ UNCHANGED <<untouchedBySetup, in_flight_fences, command_buffers,
                 swap_chain_images, swap_chain_support, swap_chain_info,
                 swap_chain_image_format, swap_chain_extent, swap_chain_framebuffers,
                 physical_device, shader_modules, fb_width, fb_height>>

\* application.cc:1366-1387 as a step of the constructor
ConstructFrameBuffers ==
  /\ pc = "CreateFrameBuffers"
  /\ \E ok \in BOOLEAN :
       /\ Created("CreateFrameBuffers", "framebuffers", ok, "Failed to create framebuffer")
       /\ swap_chain_framebuffers' =
            IF ok THEN CreateFrameBuffers(swap_chain_image_views, swap_chain_extent)
            ELSE swap_chain_framebuffers
  /\ UNCHANGED <<untouchedBySetup, in_flight_fences, command_buffers,
                 swap_chain_images, swap_chain_support, swap_chain_info,
                 swap_chain_image_format, swap_chain_extent, swap_chain_image_views,
                 physical_device, shader_modules, fb_width, fb_height>>

\* the steps that create one object with one checked call, with the object
\* and the message of the throw (application.cc:1389-1447, 1605-1633,
\* 1635-1719, 2295-2320)
CheckedSteps ==
  { [step |-> "CreateRenderPass", obj |-> "render_pass",
     message |-> "Failed to create render pass"],
    [step |-> "CreatePipelineLayout", obj |-> "pipeline_layout",
     message |-> "Failed to create pipeline layout"],
    [step |-> "CreateCommandPool", obj |-> "command_pool",
     message |-> "Failed to create command pool"],
    [step |-> "CreateCommandBuffers", obj |-> "command_buffers",
     message |-> "Failed to allocate command buffers"],
    [step |-> "CreateVertexBuffer", obj |-> "vertex_buffer",
     message |-> "Failed to create buffer"],
    [step |-> "CreateIndexBuffer", obj |-> "index_buffer",
     message |-> "Failed to create buffer"],
    [step |-> "CreateDescriptorPool", obj |-> "descriptor_pool",
     message |-> "Failed to create descriptor pool"] }

\* CreateRenderPass, CreatePipelineLayout, CreateCommandPool,
\* CreateCommandBuffers, CreateVertexBuffer, CreateIndexBuffer and
\* CreateDescriptorPool
ConstructChecked(c) ==
  /\ pc = c.step
  /\ \E ok \in BOOLEAN : Created(c.step, c.obj, ok, c.message)
  /\ UNCHANGED <<untouchedBySetup, in_flight_fences, command_buffers,
                 swap_chain_images, swapChainState, physical_device, shader_modules,
                 fb_width, fb_height>>

\* how far CreateGraphicsPipeline gets: ReadFile, the two CreateShaderMoudle
\* calls and vkCreateGraphicsPipelines each throw on failure
\* (application.cc:1449-1603, 2205-2219, 2391-2408)
PipelineOutcomes ==
  {"no_file", "vert_rejected", "frag_rejected", "pipeline_rejected", "created"}

\* the shader modules when CreateGraphicsPipeline ends with outcome r: a throw
\* leaves the modules created so far alive, and after a successful
\* vkCreateGraphicsPipelines both are destroyed (application.cc:1601-1602)
ShaderModulesAfter(r) ==
  [m \in ShaderModules |->
     IF r = "no_file" THEN "none"
     ELSE IF r = "vert_rejected" THEN "none"
     ELSE IF r = "frag_rejected" THEN (IF m = "vert" THEN "live" ELSE "none")
     ELSE IF r = "pipeline_rejected" THEN "live"
     ELSE "destroyed"]

\* the message of the throw of CreateGraphicsPipeline
PipelineMessage(r) ==
  IF r = "no_file" THEN "Failed to open file"
  ELSE IF r = "pipeline_rejected" THEN "failed to create graphics pipeline!"
  ELSE "Failed to create shader module"

\* application.cc:1449-1603
ConstructGraphicsPipeline ==
  /\ pc = "CreateGraphicsPipeline"
  /\ \E r \in PipelineOutcomes :
       /\ Created("CreateGraphicsPipeline", "graphics_pipeline", r = "created",
                  PipelineMessage(r))
       /\ shader_modules' = ShaderModulesAfter(r)
  /\ UNCHANGED <<untouchedBySetup, in_flight_fences, command_buffers,
                 swap_chain_images, swapChainState, physical_device,
                 fb_width, fb_height>>

\* application.cc:1721-1750: the fences are created signaled
ConstructSyncObjects ==
  /\ pc = "CreateSyncObjects"
  /\ \E ok \in BOOLEAN :
       /\ Created("CreateSyncObjects", "sync_objects", ok,
                  "Failed to create semaphores")
       /\ in_flight_fences' = IF ok THEN [i \in Slots |-> TRUE] ELSE in_flight_fences
  /\ UNCHANGED <<untouchedBySetup, command_buffers, swap_chain_images,
                 swapChainState, physical_device, shader_modules, fb_width, fb_height>>

\* Run up to its loop: the ImGui context and backends are set up
\* (application.cc:1046-1093)
RunEnter ==
  /\ pc = "Run"
  /\ pc' = "loop"
  /\ objects' = [objects EXCEPT !["imgui"] = "live"]
  /\ log' = << >>
  /\ UNCHANGED <<untouchedBySetup, in_flight_fences, command_buffers,
                 swap_chain_images, swapChainState, physical_device, shader_modules,
                 fb_width, fb_height, exc, what>>

\* main from its entry: the constructor, then Run, the destructor and the
\* handler (part_010:42-59)
MainNext ==
  \/ CreateWindow
  \/ CreateInstance
  \/ SetupDebugMessenger
  \/ CreateSurface
  \/ PickPhysicalDevice
  \/ CreateLogicalDevice
  \/ ConstructSwapChain
  \/ ConstructImageViews
  \/ \E c \in CheckedSteps : ConstructChecked(c)
  \/ ConstructGraphicsPipeline
  \/ ConstructFrameBuffers
  \/ ConstructSyncObjects
  \/ RunEnter
  \/ Next

MainSpec == MainInit /\ [][MainNext]_vars

(* ----------------------------------------------------------------------- *)
(* The classes Device and Pipeline as members of an Application            *)
(* (device.cc, pipeline.cc, part_005:68-81)                                *)
(* ----------------------------------------------------------------------- *)

\* the calls of Device::Device and Pipeline::Pipeline in the order the member
\* initialisers of Application run them (device.cc:47-53, pipeline.cc:24-25,
\* part_005:68-75)
ModuleSteps ==
  <<"Device::CreateInstance", "Device::SetupDebugMessenger",
    "Device::CreateSurface", "Device::PickPhysicalDevice",
    "Device::CreateLogicalDevice", "Device::CreateSwapChain",
    "Device::CreateImageViews", "Pipeline::CreatePipelineLayout",
    "Pipeline::CreateGraphicsPipeline">>

\* the step after step s of the member initialisers; Run follows the last
ModuleStepAfter(s) ==
  LET k == CHOOSE j \in 1 .. Len(ModuleSteps) : ModuleSteps[j] = s IN
    IF k = Len(ModuleSteps) THEN "Application::Run" ELSE ModuleSteps[k + 1]

\* the steps of Pipeline::Pipeline
PipelineSteps == {"Pipeline::CreatePipelineLayout", "Pipeline::CreateGraphicsPipeline"}

\* the instance extensions Device::CheckExtensionSupport requires: those of
\* GLFW and, only with enable_validation_layer_, VK_EXT_debug_utils
\* (device.cc:331-346)
DeviceRequiredExtensions(validation) ==
  {"glfw"} \cup (IF validation THEN {"VK_EXT_debug_utils"} ELSE {})

\* the commands vkGetInstanceProcAddr resolves on an instance created with
\* VK_EXT_debug_utils enabled
DebugUtilsCommands ==
  {"vkCreateDebugUtilsMessengerEXT", "vkDestroyDebugUtilsMessengerEXT"}

\* vkGetInstanceProcAddr(instance, name) returns a function
GetInstanceProcAddr(name, debug_utils_enabled) ==
  debug_utils_enabled /\ name \in DebugUtilsCommands

\* the name Device::DestroyDebugUtilsMessengerEXT looks up (device.cc:429-430)
DeviceDestroyMessengerName == "vkDestoryDebugUtilsMessengerEXT"

\* the handles Device::~Device destroys, in its order: the messenger is
\* destroyed only with enable_validation_layer_ and only if the function was
\* found (device.cc:56-69, 426-434)
DeviceDestructorObjects(validation) ==
  <<"image_views", "swap_chain", "device", "surface">>
  \o (IF validation /\ GetInstanceProcAddr(DeviceDestroyMessengerName, validation)
        THEN <<"debug_messenger">> ELSE << >>)
  \o <<"instance">>

\* the handles Pipeline::~Pipeline destroys after the two shader modules
\* (pipeline.cc:28-33)
PipelineDestructorObjects == <<"graphics_pipeline", "pipeline_layout">>

\* the shader modules when Pipeline::CreateGraphicsPipeline ends with outcome
\* r: they are the members vert_shader_module_ and frag_shader_module_ and
\* nothing in the function destroys them (pipeline.cc:65-120)
PipelineShaderModulesAfter(r) ==
  [m \in ShaderModules |->
     IF r \in {"no_file", "vert_rejected"} THEN "none"
     ELSE IF r = "frag_rejected" THEN (IF m = "vert" THEN "live" ELSE "none")
     ELSE "live"]

\* what no step of the two classes writes
untouchedByModules ==
  <<untouchedBySetup, in_flight_fences, command_buffers, swap_chain_images,
    swapChainState, physical_device, fb_width, fb_height>>

\* the Window member exists and Device::Device is entered
\* (part_005:68-72, window.cc:22-25)
ModuleInit ==
  /\ pc = "Device::CreateInstance"
  /\ ret = "none"
  /\ ops = << >>
  /\ log = << >>
  /\ current_frame = 0
  /\ framebuffer_resized = FALSE
  /\ image_index = NoImage
  /\ result = NoResult
  /\ in_flight_fences = [i \in Slots |-> FALSE]
  /\ semaphores = [s \in Semaphores |-> FALSE]
  /\ command_buffers = [i \in Slots |-> "initial"]
  /\ swap_chain_images = [k \in Images |-> [FreeImage EXCEPT !.state = "none"]]
  /\ objects = [o \in ObjectNames |-> IF o = "window" THEN "live" ELSE "none"]
  /\ graphics_queue = << >>
  /\ present_queue = << >>
  /\ fb_width = MaxDim
  /\ fb_height = MaxDim
  /\ should_close = FALSE
  /\ exc = FALSE
  /\ exit_code = "none"
  /\ what = NoMessage
  /\ cerr = << >>
  /\ surface \in Surfaces
  /\ swap_chain_support = NoSwapChainSupport
  /\ swap_chain_info = NoSwapChainInfo
  /\ swap_chain_image_format = NoSwapChainInfo.imageFormat
  /\ swap_chain_extent = NoSwapChainInfo.imageExtent
  /\ swap_chain_image_views = << >>
  /\ swap_chain_framebuffers = << >>
  /\ render_pass_info = NoRenderPassInfo
  /\ sel_pc = "idle"
  /\ SelectionIdle
  /\ physical_device = VK_NULL_HANDLE
  /\ enable_validation \in BOOLEAN
  /\ runtime \in Runtimes
  /\ shader_modules = [m \in ShaderModules |-> "none"]

\* the end of step s, which creates obj: the handle is live and the next step
\* follows, or the step throws. A throw inside Device::Device unwinds to main
\* without Device::~Device; a throw inside Pipeline::Pipeline skips
\* Pipeline::~Pipeline and destroys the Device member (part_005:68-75)
ModuleCreated(s, obj, ok, message) ==
  IF ok
    THEN /\ objects' = [objects EXCEPT ![obj] = "live"]
         /\ log' = Append(log, [op |-> "create", obj |-> obj])
         /\ pc' = ModuleStepAfter(s)
         /\ UNCHANGED <<exc, what>>
    ELSE /\ exc' = TRUE
         /\ what' = message
         /\ pc' = IF s \in PipelineSteps THEN "Device::~Device" ELSE "main_return"
         /\ log' = Append(log, [op |-> "rejected", obj |-> obj])
         /\ UNCHANGED objects

\* device.cc:71-107 with CheckExtensionSupport (device.cc:315-372) and
\* CheckValidationLayerSupport (device.cc:374-411)
DeviceCreateInstance ==
  /\ pc = "Device::CreateInstance"
  /\ IF ~(DeviceRequiredExtensions(enable_validation) \subseteq AvailableExtensions(runtime))
       THEN ModuleCreated("Device::CreateInstance", "instance", FALSE,
                          "Not supported extension")
       ELSE IF enable_validation /\ AvailableLayers(runtime) = {}
         THEN ModuleCreated("Device::CreateInstance", "instance", FALSE,
                            "Not supported layer")
         ELSE \E ok \in BOOLEAN :
                ModuleCreated("Device::CreateInstance", "instance", ok,
                              "Failed to create instance")
  /\ UNCHANGED <<untouchedByModules, shader_modules>>

\* device.cc:109-131: returns at once without enable_validation_layer_
DeviceSetupDebugMessenger ==
  /\ pc = "Device::SetupDebugMessenger"
  /\ IF ~enable_validation
       THEN /\ pc' = ModuleStepAfter("Device::SetupDebugMessenger")
            /\ UNCHANGED <<objects, log, exc, what>>
       ELSE \E ok \in BOOLEAN :
              ModuleCreated("Device::SetupDebugMessenger", "debug_messenger",
                            ok /\ GetInstanceProcAddr("vkCreateDebugUtilsMessengerEXT",
                                                      enable_validation),
                            "Failed to set up debug messenger")
  /\ UNCHANGED <<untouchedByModules, shader_modules>>

\* device.cc:137-174
DevicePickPhysicalDevice ==
  /\ pc = "Device::PickPhysicalDevice"
  /\ \E r \in {"no_devices", "no_suitable_device", "selected"} :
       IF r = "selected"
         THEN /\ pc' = ModuleStepAfter("Device::PickPhysicalDevice")
              /\ log' = Append(log, [op |-> "create", obj |-> "physical_device"])
              /\ UNCHANGED <<objects, exc, what>>
         ELSE /\ exc' = TRUE
              /\ what' = IF r = "no_devices"
                           THEN "Failed to find GPUs with Vulkan support"
                           ELSE "Failed to find a suitable GPU"
              /\ pc' = "main_return"
              /\ log' = Append(log, [op |-> "rejected", obj |-> "physical_device"])
              /\ UNCHANGED objects
  /\ UNCHANGED <<untouchedByModules, shader_modules>>

\* the steps that make one API call and throw when it is rejected:
\* Device::CreateSurface through Window::CreateWindowSurface (device.cc:133-135,
\* window.cc:34-40), Device::CreateLogicalDevice (device.cc:176-228),
\* Device::CreateSwapChain (device.cc:230-287), Device::CreateImageViews
\* (device.cc:289-313), Pipeline::CreatePipelineLayout (pipeline.cc:35-49)
ModuleCheckedSteps ==
  { [step |-> "Device::CreateSurface", obj |-> "surface",
     message |-> "Failed to create window surface"],
    [step |-> "Device::CreateLogicalDevice", obj |-> "device",
     message |-> "Failed to create logical device"],
    [step |-> "Device::CreateSwapChain", obj |-> "swap_chain",
     message |-> "Failed to create swap chain"],
    [step |-> "Device::CreateImageViews", obj |-> "image_views",
     message |-> "Failed to create image view"],
    [step |-> "Pipeline::CreatePipelineLayout", obj |-> "pipeline_layout",
     message |-> "Failed to create pipeline layout"] }

ModuleChecked(c) ==
  /\ pc = c.step
  /\ \E ok \in BOOLEAN : ModuleCreated(c.step, c.obj, ok, c.message)
  /\ UNCHANGED <<untouchedByModules, shader_modules>>

\* pipeline.cc:65-120 with ReadFile (pipeline.cc:122-140) and
\* CreateShaderModule (pipeline.cc:51-63)
PipelineCreateGraphicsPipeline ==
  /\ pc = "Pipeline::CreateGraphicsPipeline"
  /\ \E r \in PipelineOutcomes :
       /\ ModuleCreated("Pipeline::CreateGraphicsPipeline", "graphics_pipeline",
                        r = "created",
                        IF r = "no_file" THEN "Failed to read file"
                        ELSE IF r = "pipeline_rejected"
                          THEN "Failed to create graphics pipeline"
                          ELSE "Failed to create shader module")
       /\ shader_modules' = PipelineShaderModulesAfter(r)
  /\ UNCHANGED untouchedByModules

\* part_005:77-81: Run polls events until the window is asked to close, then
\* main leaves the scope of the Application (part_010:50-53)
ApplicationRun ==
  /\ pc = "Application::Run"
  /\ pc' = "Pipeline::~Pipeline"
  /\ UNCHANGED <<untouchedByModules, shader_modules, objects, log, exc, what>>

\* pipeline.cc:28-33
PipelineDestructor ==
  /\ pc = "Pipeline::~Pipeline"
  /\ pc' = "Device::~Device"
  /\ shader_modules' = [m \in ShaderModules |-> "destroyed"]
  /\ objects' = [o \in ObjectNames |->
                   IF \E k \in 1 .. Len(PipelineDestructorObjects) :
                        PipelineDestructorObjects[k] = o
                     THEN "destroyed" ELSE objects[o]]
  /\ log' = log \o [k \in 1 .. Len(PipelineDestructorObjects) |->
                      [op |-> "destroy", obj |-> PipelineDestructorObjects[k]]]
  /\ UNCHANGED <<untouchedByModules, exc, what>>

\* device.cc:56-69; the Window member is destroyed after it (window.cc:27-30)
DeviceDestructor ==
  /\ pc = "Device::~Device"
  /\ pc' = "main_return"
  /\ LET destroyed == DeviceDestructorObjects(enable_validation) \o <<"window">> IN
       /\ objects' = [o \in ObjectNames |->
                        IF \E k \in 1 .. Len(destroyed) : destroyed[k] = o
                          THEN "destroyed" ELSE objects[o]]
       /\ log' = log \o [k \in 1 .. Len(destroyed) |->
                           [op |-> "destroy", obj |-> destroyed[k]]]
  /\ UNCHANGED <<untouchedByModules, shader_modules, exc, what>>

\* main over an Application built of the classes (part_010:42-59)
ModuleNext ==
  \/ DeviceCreateInstance
  \/ DeviceSetupDebugMessenger
  \/ DevicePickPhysicalDevice
  \/ \E c \in ModuleCheckedSteps : ModuleChecked(c)
  \/ PipelineCreateGraphicsPipeline
  \/ ApplicationRun
  \/ PipelineDestructor
  \/ DeviceDestructor
  \/ MainReturn

ModuleSpec == ModuleInit /\ [][ModuleNext]_vars

(* ----------------------------------------------------------------------- *)
(* The create info of CreateSwapChain over the surfaces a driver can report *)
(* (application.cc:1278-1303, 2183-2203; swap_chain.cc:39-64, 195-216)     *)
(* ----------------------------------------------------------------------- *)

\* the special value of currentExtent: the surface takes the extent of the
\* swapchain (application.cc:2185-2186)
UndefinedExtent == Extent2D(UINT32_MAX, UINT32_MAX)

\* the VkSurfaceCapabilitiesKHR a surface can report: currentExtent is the
\* special value or a size, minImageExtent is at most maxImageExtent in both
\* dimensions, and maxImageCount is 0 or at least minImageCount
SurfaceCapabilities ==
  { [minImageCount |-> c[1], maxImageCount |-> c[2], currentExtent |-> cur,
     minImageExtent |-> Extent2D(ew[1], eh[1]),
     maxImageExtent |-> Extent2D(ew[2], eh[2])] :
      c \in {p \in (1 .. MaxCount) \X (0 .. MaxCount) : p[2] = 0 \/ p[1] <= p[2]},
      cur \in {UndefinedExtent} \cup {Extent2D(cw, ch) : cw \in Dims, ch \in Dims},
      ew \in {p \in (1 .. MaxDim) \X (1 .. MaxDim) : p[1] <= p[2]},
      eh \in {p \in (1 .. MaxDim) \X (1 .. MaxDim) : p[1] <= p[2]} }

\* CreateSwapChain is entered: the support details have been queried and
\* the framebuffer has some size (application.cc:1279-1280)
SwapChainInit ==
  /\ pc = "CreateSwapChain"
  /\ ret = "none"
  /\ ops = << >>
  /\ log = << >>
  /\ current_frame = 0
  /\ framebuffer_resized = FALSE
  /\ image_index = NoImage
  /\ result = NoResult
  /\ in_flight_fences = [i \in Slots |-> FALSE]
  /\ semaphores = [s \in Semaphores |-> FALSE]
  /\ command_buffers = [i \in Slots |-> "initial"]
  /\ swap_chain_images = [k \in Images |-> [FreeImage EXCEPT !.state = "none"]]
  /\ objects = [o \in ObjectNames |->
                  IF o \in {"window", "instance", "debug_messenger", "surface", "device"}
                    THEN "live" ELSE "none"]
  /\ graphics_queue = << >>
  /\ present_queue = << >>
  /\ fb_width \in Dims
  /\ fb_height \in Dims
  /\ should_close = FALSE
  /\ exc = FALSE
  /\ exit_code = "none"
  /\ what = NoMessage
  /\ cerr = << >>
  /\ surface \in Surfaces
  /\ \E capabilities \in SurfaceCapabilities :
       swap_chain_support =
         [support |-> [capabilities |-> capabilities, formats |-> surface.formats,
                       present_modes |-> surface.present_modes],
          width |-> fb_width, height |-> fb_height]
  /\ swap_chain_info = NoSwapChainInfo
  /\ swap_chain_image_format = NoSwapChainInfo.imageFormat
  /\ swap_chain_extent = NoSwapChainInfo.imageExtent
  /\ swap_chain_image_views = << >>
  /\ swap_chain_framebuffers = << >>
  /\ render_pass_info = NoRenderPassInfo
  /\ sel_pc = "idle"
  /\ SelectionIdle
  /\ physical_device = 1
  /\ enable_validation = TRUE
  /\ runtime = FullRuntime
  /\ shader_modules = [m \in ShaderModules |-> "none"]

\* CreateSwapChain up to vkCreateSwapchainKHR: the create info is built from
\* the support details and the framebuffer size, and the format and the
\* extent are stored (application.cc:1279-1303, 1335-1336)
BuildSwapChainInfo ==
  /\ pc = "CreateSwapChain"
  /\ pc' = "vkCreateSwapchainKHR"
  /\ swap_chain_info' = SwapChainInfo(swap_chain_support.support, fb_width, fb_height)
  /\ swap_chain_image_format' = swap_chain_info'.imageFormat
  /\ swap_chain_extent' = swap_chain_info'.imageExtent
  /\ UNCHANGED <<untouchedBySetup, in_flight_fences, command_buffers,
                 swap_chain_images, swap_chain_support, swap_chain_image_views,
                 swap_chain_framebuffers, physical_device, fb_width, fb_height,
                 shader_modules, objects, log, exc, what>>

SwapChainNext == BuildSwapChainInfo

SwapChainSpec == SwapChainInit /\ [][SwapChainNext]_vars

(* ----------------------------------------------------------------------- *)
(* CreateSwapChain and CreateImageViews of Application and of the classes  *)
(* SwapChain and Device over the lists a surface can report                *)
(* (application.cc:1278-1364, swap_chain.cc:39-125, device.cc:230-313)     *)
(* ----------------------------------------------------------------------- *)

\* the preferred format with another colour space
WideGamutFormat ==
  [format |-> "VK_FORMAT_B8G8R8A8_UNORM",
   colorSpace |-> "VK_COLOR_SPACE_DISPLAY_P3_NONLINEAR_EXT"]

\* the surface format SwapChain::ChooseSwapSufaceFormat and
\* Device::ChooseSwapSufaceFormat look for (swap_chain.cc:221-222,
\* device.cc:599-600)
ClassPreferredFormat ==
  [format |-> "VK_FORMAT_B8G8R8_SRGB", colorSpace |-> "VK_COLOR_SPACE_SRGB_NONLINEAR_KHR"]

SurfaceFormats == {PreferredFormat, OtherFormat, WideGamutFormat, ClassPreferredFormat}

PresentModes ==
  {"VK_PRESENT_MODE_FIFO_KHR", "VK_PRESENT_MODE_MAILBOX_KHR",
   "VK_PRESENT_MODE_IMMEDIATE_KHR"}

\* what vkGetPhysicalDeviceSurfaceFormatsKHR and
\* vkGetPhysicalDeviceSurfacePresentModesKHR can report: any non-empty list of
\* formats and any list of present modes, in any order
ReportedSurfaces ==
  [extent_defined : {TRUE},
   formats : SeqUpTo(SurfaceFormats, MaxListLen) \ {<< >>},
   present_modes : SeqUpTo(PresentModes, MaxListLen)]

\* swap_chain.cc:218-228, device.cc:596-606
ClassChooseSwapSufaceFormat(available_formats) ==
  IF \E k \in 1 .. Len(available_formats) : available_formats[k] = ClassPreferredFormat
    THEN ClassPreferredFormat
    ELSE available_formats[1]

\* swap_chain.cc:230-241, device.cc:608-617: without MAILBOX the first entry
\* is returned; available_modes[0] of an empty vector is undefined and may be
\* read as any mode
ClassChooseSwapPresentMode(available_modes) ==
  IF \E k \in 1 .. Len(available_modes) :
       available_modes[k] = "VK_PRESENT_MODE_MAILBOX_KHR"
    THEN {"VK_PRESENT_MODE_MAILBOX_KHR"}
    ELSE IF available_modes = << >> THEN PresentModes ELSE {available_modes[1]}

\* application.cc:1307-1316
SharingMode(families) ==
  IF families.graphics_family # families.present_family
    THEN "VK_SHARING_MODE_CONCURRENT" ELSE "VK_SHARING_MODE_EXCLUSIVE"

\* swap_chain.cc:69-77, device.cc:263-271: graphics_family is compared with
\* itself
ClassSharingMode(families) ==
  IF families.graphics_family # families.graphics_family
    THEN "VK_SHARING_MODE_CONCURRENT" ELSE "VK_SHARING_MODE_EXCLUSIVE"

\* a null VkImageView, the value of the elements after resize
NullImageView == [image |-> NoImage, format |-> "VK_FORMAT_UNDEFINED"]

\* the vector of views after the iterations of the loop of
\* SwapChain::CreateImageViews and Device::CreateImageViews for the images
\* i .. n - 1: every vkCreateImageView writes its handle to
\* swap_chain_image_views_.data(), the address of element 0
\* (swap_chain.cc:102-124, device.cc:291-312)
RECURSIVE ClassImageViewsFrom(_, _, _, _)
ClassImageViewsFrom(views, i, n, format) ==
  IF i >= n THEN views
  ELSE ClassImageViewsFrom([views EXCEPT ![0] = [image |-> i, format |-> format]],
                           i + 1, n, format)

\* swap_chain.cc:100-125, device.cc:289-313
ClassCreateImageViews(images, format) ==
  ClassImageViewsFrom([k \in DOMAIN images |-> NullImageView], 0,
                      Cardinality(DOMAIN images), format)

\* CreateSwapChain is entered: the surface reports its lists and the queue
\* families of the device have been found
CreateInfoInit ==
  /\ pc = "CreateSwapChain"
  /\ ret = "none"
  /\ ops = << >>
  /\ log = << >>
  /\ current_frame = 0
  /\ framebuffer_resized = FALSE
  /\ image_index = NoImage
  /\ result = NoResult
  /\ in_flight_fences = [i \in Slots |-> FALSE]
  /\ semaphores = [s \in Semaphores |-> FALSE]
  /\ command_buffers = [i \in Slots |-> "initial"]
  /\ swap_chain_images = [k \in Images |-> [FreeImage EXCEPT !.state = "none"]]
  /\ objects = [o \in ObjectNames |->
                  IF o \in {"window", "instance", "debug_messenger", "surface", "device"}
                    THEN "live" ELSE "none"]
  /\ graphics_queue = << >>
  /\ present_queue = << >>
  /\ fb_width = MaxDim
  /\ fb_height = MaxDim
  /\ should_close = FALSE
  /\ exc = FALSE
  /\ exit_code = "none"
  /\ what = NoMessage
  /\ cerr = << >>
  /\ surface \in ReportedSurfaces
  /\ swap_chain_support = NoSwapChainSupport
  /\ swap_chain_info = NoSwapChainInfo
  /\ swap_chain_image_format = NoSwapChainInfo.imageFormat
  /\ swap_chain_extent = NoSwapChainInfo.imageExtent
  /\ swap_chain_image_views = << >>
  /\ swap_chain_framebuffers = << >>
  /\ render_pass_info = NoRenderPassInfo
  /\ sel_pc = "idle"
  /\ queue_families = << >>
  /\ family_i = 0
  /\ indices \in [graphics_family : 0 .. 1, present_family : 0 .. 1]
  /\ device = NoDevice
  /\ score = 0
  /\ devices = << >>
  /\ device_i = 0
  /\ candidates = << >>
  /\ physical_device = 1
  /\ enable_validation = TRUE
  /\ runtime = FullRuntime
  /\ shader_modules = [m \in ShaderModules |-> "none"]

\* what no action on the create info writes
untouchedByCreateInfo ==
  <<untouchedBySetup, in_flight_fences, command_buffers, swap_chain_framebuffers,
    physical_device, fb_width, fb_height, shader_modules, objects, log, exc, what>>

\* the VkSwapchainCreateInfoKHR of Application::CreateSwapChain with its
\* sharing mode (application.cc:1279-1322)
ApplicationCreateInfo(support, w, h, families) ==
  [minImageCount |-> SwapChainInfo(support, w, h).minImageCount,
   imageFormat |-> SwapChainInfo(support, w, h).imageFormat,
   imageColorSpace |-> SwapChainInfo(support, w, h).imageColorSpace,
   imageExtent |-> SwapChainInfo(support, w, h).imageExtent,
   presentMode |-> SwapChainInfo(support, w, h).presentMode,
   imageSharingMode |-> SharingMode(families)]

\* the VkSwapchainCreateInfoKHR structures SwapChain::CreateSwapChain and
\* Device::CreateSwapChain can build (swap_chain.cc:40-79, device.cc:231-274)
ClassCreateInfo(support, w, h, families) ==
  { [minImageCount |-> ImageCount(support.capabilities.minImageCount,
                                  support.capabilities.maxImageCount),
     imageFormat |-> ClassChooseSwapSufaceFormat(support.formats).format,
     imageColorSpace |-> ClassChooseSwapSufaceFormat(support.formats).colorSpace,
     imageExtent |-> ChooseSwapExtent(support.capabilities, w, h),
     presentMode |-> present_mode,
     imageSharingMode |-> ClassSharingMode(families)] :
       present_mode \in ClassChooseSwapPresentMode(support.present_modes) }

\* Application::CreateSwapChain: the create info, the images, the format and
\* the extent (application.cc:1278-1337)
ApplicationCreateSwapChain ==
  /\ pc = "CreateSwapChain"
  /\ pc' = "Application::CreateImageViews"
  /\ swap_chain_support' = SwapChainInputs(surface, fb_width, fb_height)
  /\ swap_chain_info' = ApplicationCreateInfo(swap_chain_support'.support,
                                              fb_width, fb_height, indices)
  /\ swap_chain_images' = [k \in Images |-> FreeImage]
  /\ swap_chain_image_format' = swap_chain_info'.imageFormat
  /\ swap_chain_extent' = swap_chain_info'.imageExtent
  /\ UNCHANGED <<untouchedByCreateInfo, swap_chain_image_views>>

\* application.cc:1339-1364
ApplicationCreateImageViews ==
  /\ pc = "Application::CreateImageViews"
  /\ pc' = "Application::created"
  /\ swap_chain_image_views' = CreateImageViews(swap_chain_images, swap_chain_image_format)
  /\ UNCHANGED <<untouchedByCreateInfo, swap_chain_support, swap_chain_info,
                 swap_chain_images, swap_chain_image_format, swap_chain_extent>>

\* SwapChain::CreateSwapChain and Device::CreateSwapChain
\* (swap_chain.cc:39-98, device.cc:230-287)
ClassCreateSwapChain ==
  /\ pc = "CreateSwapChain"
  /\ pc' = "SwapChain::CreateImageViews"
  /\ swap_chain_support' = SwapChainInputs(surface, fb_width, fb_height)
  /\ swap_chain_info' \in ClassCreateInfo(swap_chain_support'.support,
                                          fb_width, fb_height, indices)
  /\ swap_chain_images' = [k \in Images |-> FreeImage]
  /\ swap_chain_image_format' = swap_chain_info'.imageFormat
  /\ swap_chain_extent' = swap_chain_info'.imageExtent
  /\ UNCHANGED <<untouchedByCreateInfo, swap_chain_image_views>>

\* swap_chain.cc:100-125, device.cc:289-313
ClassCreateImageViewsStep ==
  /\ pc = "SwapChain::CreateImageViews"
  /\ pc' = "SwapChain::created"
  /\ swap_chain_image_views' =
       ClassCreateImageViews(swap_chain_images, swap_chain_image_format)
  /\ UNCHANGED <<untouchedByCreateInfo, swap_chain_support, swap_chain_info,
                 swap_chain_images, swap_chain_image_format, swap_chain_extent>>

CreateInfoNext ==
  \/ ApplicationCreateSwapChain
  \/ ApplicationCreateImageViews
  \/ ClassCreateSwapChain
  \/ ClassCreateImageViewsStep

CreateInfoSpec == CreateInfoInit /\ [][CreateInfoNext]_vars

(* ----------------------------------------------------------------------- *)
(* Properties of the frame loop                                            *)
(* ----------------------------------------------------------------------- *)

\* submissions in the graphics queue that execute command buffer i
PendingOn(i) == {j \in 1 .. Len(graphics_queue) : graphics_queue[j].cmd = i}

\* submissions in the graphics queue that will signal fence i
WillSignal(i) == {j \in 1 .. Len(graphics_queue) : graphics_queue[j].fence = i}

\* C1: the command buffer of the current slot is reset and re-recorded only
\* after the slot's fence was seen signaled: between the fence wait and the
\* fence reset the fence is signaled, at the reset of the command buffer no
\* submission of it is still in the graphics queue, and no command buffer is
\* ever reset while pending.
C1_RecordAfterFence ==
  /\ pc \in {"acquire", "reset_fence"} => in_flight_fences[current_frame]
  /\ pc = "record" => PendingOn(current_frame) = {}
  /\ \A i \in Slots : command_buffers[i] # "invalid"

\* a slot is re-recorded (it was recorded and executed before) while the
\* submission of the other slot is still in flight
C1_Witness ==
  /\ pc = "record"
  /\ command_buffers[current_frame] = "executable"
  /\ graphics_queue # << >>

\* C2: at most MAX_FRAMES_IN_FLIGHT submissions are uncompleted at any time,
\* and at most one of them belongs to each slot.
C2_AtMostNInFlight ==
  /\ Len(graphics_queue) <= MAX_FRAMES_IN_FLIGHT
  /\ \A i \in Slots : Cardinality(WillSignal(i)) <= 1

\* the CPU is MAX_FRAMES_IN_FLIGHT frames ahead and blocked on the fence
C2_Witness ==
  /\ Len(graphics_queue) = MAX_FRAMES_IN_FLIGHT
  /\ pc = "wait"
  /\ ~in_flight_fences[current_frame]

\* every unsignaled fence has a pending submission that will signal it
FencesPending ==
  \A i \in Slots : ~in_flight_fences[i] => WillSignal(i) # {}

\* an unsignaled fence has a pending submission that will signal it, except
\* for the current slot between vkResetFences and vkQueueSubmit and after an
\* exception was thrown from that window
FencesPendingOrInReset ==
  \A i \in Slots :
    ~in_flight_fences[i] =>
      \/ WillSignal(i) # {}
      \/ i = current_frame /\ pc \in {"record", "submit"}
      \/ exc

\* DrawFrame is blocked inside RecreateSwapChain: in the loop that waits for a
\* non-zero framebuffer size, or in vkDeviceWaitIdle
BlockedInRecreate ==
  \/ pc = "recreate_wait"
  \/ pc = "exec" /\ ops = RecreateSwapChainOps

NoTornImage == \A k \in Images : ~swap_chain_images[k].torn

\* C4 as stated: every submission waits on the image-available semaphore of
\* its slot and signals the slot's render-finished semaphore and fence, every
\* present request waits on one render-finished semaphore, and no image is
\* written before its acquire completed or presented before it was rendered.
C4_AcquireRenderPresentOrder ==
  /\ \A j \in 1 .. Len(graphics_queue) :
       LET s == graphics_queue[j] IN
         /\ s.wait = {ImageAvailable(s.cmd)}
         /\ s.signal = {RenderFinished(s.cmd)}
         /\ s.fence = s.cmd
  /\ \A j \in 1 .. Len(present_queue) :
       \E i \in Slots : present_queue[j].wait = {RenderFinished(i)}
  /\ NoTornImage

\* the running DrawFrame was aborted by an out-of-date acquire
AbortedByAcquire ==
  /\ pc \in {"recreate", "recreate_wait", "exec", "return"}
  /\ result = VK_ERROR_OUT_OF_DATE_KHR
  /\ image_index = NoImage

\* C5: an out-of-date acquire makes DrawFrame call RecreateSwapChain and then
\* return; until it returns the thread neither resets the slot's fence nor
\* touches a command buffer, submits nothing, presents nothing and keeps the
\* slot index.
C5_OutOfDateAborts ==
  /\ [][ /\ (pc = "acquire" /\ result' = VK_ERROR_OUT_OF_DATE_KHR)
            => (pc' = "recreate" /\ ret' = "return" /\ image_index' = NoImage)
         /\ AbortedByAcquire
            => /\ pc' \in {"recreate", "recreate_wait", "exec", "return", "loop"}
               /\ pc' = "loop" => pc = "return"
               /\ in_flight_fences[current_frame] => in_flight_fences'[current_frame]
               /\ \A i \in Slots :
                    command_buffers'[i] # command_buffers[i]
                      => (command_buffers[i] = "pending" /\ i # current_frame)
               /\ Len(graphics_queue') <= Len(graphics_queue)
               /\ Len(present_queue') <= Len(present_queue)
               /\ current_frame' = current_frame ]_vars
  /\ [](pc = "return" => AbortedByAcquire /\ in_flight_fences[current_frame])

\* DrawFrame returns after an out-of-date acquire and a completed recreation
C5_Witness ==
  /\ pc = "return"
  /\ AbortedByAcquire
  /\ \A o \in SwapChainObjects : objects[o] = "live"

C7_RecreateAfterPresent ==
  [][ /\ (pc = "present" /\ pc' # pc
            /\ (result' \in {VK_ERROR_OUT_OF_DATE_KHR, VK_SUBOPTIMAL_KHR}
                \/ framebuffer_resized))
         => (pc' = "recreate" /\ ret' = "advance")
      /\ (pc \in {"recreate", "recreate_wait", "exec"} /\ ret = "advance")
         => current_frame' = current_frame ]_vars

\* the recreation after a successful present is caused by the resize flag alone
C7_Witness ==
  /\ pc = "recreate"
  /\ ret = "advance"
  /\ result = VK_SUCCESS
  /\ framebuffer_resized

\* the calls of RecreateSwapChain after its framebuffer-size loop, in order
RecreateOrder ==
  << [op |-> "vkDeviceWaitIdle", obj |-> "device"],
     [op |-> "destroy", obj |-> "framebuffers"],
     [op |-> "destroy", obj |-> "image_views"],
     [op |-> "destroy", obj |-> "swap_chain"],
     [op |-> "create", obj |-> "swap_chain"],
     [op |-> "create", obj |-> "image_views"],
     [op |-> "create", obj |-> "framebuffers"] >>

\* the thread is inside RecreateSwapChain, past the framebuffer-size loop
InRecreate == pc = "exec" /\ ret \in {"return", "advance"}

\* C8: what RecreateSwapChain has done so far is always a prefix of: device
\* idle, destroy framebuffers, destroy image views, destroy swapchain, create
\* swapchain, create image views, create framebuffers; and it returns only
\* when all seven are done.
C8_RecreateOrder ==
  /\ [](InRecreate => \E n \in 0 .. Len(RecreateOrder) : log = SubSeq(RecreateOrder, 1, n))
  /\ [][ (InRecreate /\ pc' # "exec" /\ ~exc') => log = RecreateOrder ]_vars

\* RecreateSwapChain is about to return with everything recreated
C8_Witness ==
  /\ InRecreate
  /\ ops = << >>
  /\ log = RecreateOrder
  /\ \A o \in SwapChainObjects : objects[o] = "live"

\* no work is queued on the device
DeviceIdle == graphics_queue = << >> /\ present_queue = << >>

\* C9: without an exception, whenever a framebuffer, image view or the
\* swapchain is destroyed (in RecreateSwapChain or in the destructor after Run
\* returned) no submission or present request is pending, and inside
\* RecreateSwapChain the destruction comes after the device-idle wait.
C9_DestroyOnlyWhenIdle ==
  /\ ~exc =>
       ((\E o \in SwapChainObjects : objects[o] # "live") => DeviceIdle)
  /\ (InRecreate /\ Len(log) >= 2) => log[1].op = "vkDeviceWaitIdle"

\* the swapchain objects are destroyed inside a recreation that follows frames
\* submitted on both slots
C9_Witness ==
  /\ InRecreate
  /\ ~exc
  /\ \A o \in SwapChainObjects : objects[o] = "destroyed"
  /\ \A i \in Slots : command_buffers[i] = "executable"

\* C10 as stated: when an exception leaves the frame loop, no GPU object is
\* destroyed by the teardown while submitted work is still pending.
C10_IdleBeforeTeardown ==
  exc => ((\E o \in ObjectNames : objects[o] # "live") => DeviceIdle)

(* ----------------------------------------------------------------------- *)
(* Properties of the swapchain's images, views and framebuffers            *)
(* ----------------------------------------------------------------------- *)

\* RecreateSwapChain has calls left to make
MidRecreate == InRecreate /\ ops # << >>

\* C11: after construction and after every completed RecreateSwapChain there
\* are as many image views and framebuffers as swapchain images, and the
\* image index an acquire returned is an index of a framebuffer
C11_ImagesViewsFramebuffers ==
  (~exc /\ ~MidRecreate) =>
    /\ DOMAIN swap_chain_image_views = DOMAIN swap_chain_images
    /\ DOMAIN swap_chain_framebuffers = DOMAIN swap_chain_image_views
    /\ image_index # NoImage => image_index \in DOMAIN swap_chain_framebuffers

\* RecreateSwapChain, called after a present, has made all its calls and
\* changed the extent the frame was recorded with
C11_Witness ==
  /\ InRecreate
  /\ ops = << >>
  /\ ~exc
  /\ image_index \in DOMAIN swap_chain_framebuffers
  /\ render_pass_info.framebuffer = image_index
  /\ render_pass_info.extent # swap_chain_extent

\* every framebuffer has the stored extent
FramebuffersMatchExtent ==
  \A k \in DOMAIN swap_chain_framebuffers :
    /\ swap_chain_framebuffers[k].width = swap_chain_extent.width
    /\ swap_chain_framebuffers[k].height = swap_chain_extent.height

\* the extent CreateSwapChain chooses for the window as it is now
ExtentForWindow ==
  ChooseSwapExtent(QuerySwapChainSupoort(surface, fb_width, fb_height).capabilities,
                   fb_width, fb_height)

SwapChainLive == \A o \in SwapChainObjects : objects[o] = "live"

\* C12: when a RecreateSwapChain has made all its calls, the swapchain, its
\* views and framebuffers are live with every image free for the next acquire,
\* the stored extent is the one chosen for the window's present size and every
\* framebuffer has that extent; the next acquire runs on live swapchain
\* objects, and a recorded frame's render area is the stored extent
C12_ResizeRecreation ==
  /\ (InRecreate /\ ops = << >> /\ ~exc) =>
       /\ SwapChainLive
       /\ \A k \in DOMAIN swap_chain_images : swap_chain_images[k] = FreeImage
       /\ swap_chain_extent = ExtentForWindow
       /\ FramebuffersMatchExtent
  /\ (pc = "acquire" /\ ~exc) => (SwapChainLive /\ FramebuffersMatchExtent)
  /\ (pc \in {"submit", "present"} /\ ~exc) =>
       /\ render_pass_info.extent = swap_chain_extent
       /\ render_pass_info.framebuffer \in DOMAIN swap_chain_framebuffers
       /\ swap_chain_framebuffers[render_pass_info.framebuffer].width =
            render_pass_info.extent.width
       /\ swap_chain_framebuffers[render_pass_info.framebuffer].height =
            render_pass_info.extent.height

\* a present succeeded, the flag set by the resize callback alone called
\* RecreateSwapChain, and it has made all its calls: the framebuffers have the
\* extent of the new window size, which is not the one the frame was recorded with
C12_Witness ==
  /\ InRecreate
  /\ ops = << >>
  /\ ret = "advance"
  /\ result = VK_SUCCESS
  /\ framebuffer_resized
  /\ ~exc
  /\ fb_width > 0 /\ fb_height > 0
  /\ swap_chain_extent = Extent2D(fb_width, fb_height)
  /\ render_pass_info.extent # swap_chain_extent
  /\ FramebuffersMatchExtent

\* the thread is inside RecreateSwapChain, from its call to its return
InRecreateSwapChain == pc \in {"recreate", "recreate_wait"} \/ InRecreate

\* C13: no step RecreateSwapChain takes changes the state of an object other
\* than the swapchain, its image views and its framebuffers (so the render
\* pass, the pipeline layout, the pipeline, the command pool and the sync
\* objects stay as they are), nor a command buffer, a semaphore, a fence or
\* the slot index
C13_RecreateFrame ==
  [][ (InRecreateSwapChain /\ ~exc /\ (pc' # pc \/ ops' # ops)) =>
        /\ \A o \in ObjectNames \ SwapChainObjects : objects'[o] = objects[o]
        /\ command_buffers' = command_buffers
        /\ semaphores' = semaphores
        /\ in_flight_fences' = in_flight_fences
        /\ current_frame' = current_frame
        /\ graphics_queue' = graphics_queue
        /\ present_queue' = present_queue ]_vars

\* RecreateSwapChain, called in slot 1 after a present, has made all its
\* calls: the swapchain objects were replaced, the others are as they were
C13_Witness ==
  /\ InRecreate
  /\ ops = << >>
  /\ ret = "advance"
  /\ ~exc
  /\ current_frame = 1
  /\ command_buffers[1] = "executable"
  /\ \A i \in Slots : in_flight_fences[i]
  /\ \A o \in ObjectNames : objects[o] = "live"
  /\ \A k \in DOMAIN swap_chain_images : swap_chain_images[k] = FreeImage

\* RecreateSwapChain is about to call CreateSwapChain
AtCreateSwapChain ==
  /\ InRecreate
  /\ ops # << >>
  /\ Head(ops) = [op |-> "create", objs |-> <<"swap_chain">>]

C15_SlotIndex ==
  /\ [](current_frame \in Slots)
  /\ [][ /\ (current_frame' # current_frame) =>
              (pc = "advance" /\ pc' = "loop"
               /\ current_frame' = (current_frame + 1) % MAX_FRAMES_IN_FLIGHT)
         /\ (pc = "advance" /\ pc' # pc) =>
              current_frame' = (current_frame + 1) % MAX_FRAMES_IN_FLIGHT
         /\ (pc = "present" /\ pc' # pc /\ ~exc') =>
              (pc' = "advance" \/ (pc' = "recreate" /\ ret' = "advance"))
         /\ (InRecreateSwapChain /\ ~exc /\ ~exc' /\ ~InRecreateSwapChain') => pc' = ret
         /\ (InRecreateSwapChain /\ ~exc /\ ~exc' /\ InRecreateSwapChain') => ret' = ret
         /\ (pc # "loop" /\ pc' = "loop") => pc \in {"advance", "return"}
         /\ (pc = "return" /\ pc' # pc) =>
              (pc' = "loop" /\ current_frame' = current_frame) ]_vars

\* the first DrawFrame that got to its end presented, recreated the swapchain
\* because of the resize flag and stepped the index from 0 to 1
C15_Witness ==
  /\ pc = "loop"
  /\ ~exc
  /\ current_frame = 1
  /\ command_buffers[1] = "initial"
  /\ command_buffers[0] # "initial"
  /\ framebuffer_resized

\* C16: every step of DrawFrame uses the objects of the current slot: the
\* fence it waits on and resets, the semaphore it gives to acquire, the
\* command buffer it records and submits, the semaphores and the fence of the
\* submission and the semaphore of the present request; the framebuffer of
\* the render pass is the one of the acquired image index
C16_SlotObjects ==
  [][ /\ (pc = "wait" /\ pc' = "acquire") => in_flight_fences[current_frame]
      /\ (pc = "acquire" /\ pc' = "reset_fence") =>
           /\ image_index' \in DOMAIN swap_chain_images
           /\ swap_chain_images'[image_index'].sem = ImageAvailable(current_frame)
      /\ (pc = "reset_fence" /\ pc' # pc) =>
           /\ ~in_flight_fences'[current_frame]
           /\ \A i \in Slots \ {current_frame} : in_flight_fences'[i] = in_flight_fences[i]
      /\ (pc = "record" /\ pc' = "submit") =>
           /\ command_buffers'[current_frame] \in {"executable", "invalid"}
           /\ \A i \in Slots \ {current_frame} : command_buffers'[i] = command_buffers[i]
           /\ render_pass_info'.framebuffer = image_index
           /\ render_pass_info'.framebuffer \in DOMAIN swap_chain_framebuffers
      /\ (pc = "submit" /\ pc' = "present") =>
           /\ graphics_queue' = Append(graphics_queue, graphics_queue'[Len(graphics_queue')])
           /\ LET s == graphics_queue'[Len(graphics_queue')] IN
                /\ s.wait = {ImageAvailable(current_frame)}
                /\ s.signal = {RenderFinished(current_frame)}
                /\ s.cmd = current_frame
                /\ s.fence = current_frame
                /\ s.image = render_pass_info.framebuffer
      /\ (pc = "present" /\ pc' # pc /\ present_queue' # present_queue) =>
           /\ present_queue' = Append(present_queue, present_queue'[Len(present_queue')])
           /\ present_queue'[Len(present_queue')].wait = {RenderFinished(current_frame)}
           /\ present_queue'[Len(present_queue')].image = image_index ]_vars

\* slot 1 has submitted a frame rendered to image 2: the framebuffer index is
\* the image index, not the slot index
C16_Witness ==
  /\ pc = "present"
  /\ ~exc
  /\ current_frame = 1
  /\ image_index = 2
  /\ render_pass_info.framebuffer = 2
  /\ graphics_queue # << >>
  /\ graphics_queue[Len(graphics_queue)] = SubmitInfo(1, 2)
  /\ ~in_flight_fences[1]

(* ----------------------------------------------------------------------- *)
(* Properties of the physical device selection                             *)
(* ----------------------------------------------------------------------- *)

\* the device of the k-th pair of the multimap
CandidateDevice(k) == devices[candidates[k].device]

\* C17 as stated: every evaluated device without the geometry-shader feature
\* has score 0, and the selected device has the feature
C17_Original ==
  /\ \A k \in 1 .. Len(candidates) :
       ~CandidateDevice(k).geometryShader => candidates[k].score = 0
  /\ (sel_pc = "return" /\ physical_device # VK_NULL_HANDLE) =>
       devices[physical_device].geometryShader

\* C17: a device without the geometry-shader feature is given score 1 when it
\* has complete queue families, the swapchain extension and adequate swapchain
\* support, and 0 otherwise; it is selected only when no enumerated device has
\* a score greater than 1
C17_GeometryShaderScore ==
  /\ \A k \in 1 .. Len(candidates) :
       ~CandidateDevice(k).geometryShader =>
         candidates[k].score = IF Eligible(CandidateDevice(k)) THEN 1 ELSE 0
  /\ (sel_pc = "return" /\ ~devices[physical_device].geometryShader) =>
       /\ candidates[Len(candidates)].score = 1
       /\ \A k \in 1 .. Len(candidates) : candidates[k].score <= 1

\* a device without the feature was selected, with score 1, next to a device
\* that has the feature but not the swapchain extension
C17_Witness ==
  /\ sel_pc = "return"
  /\ Len(devices) = 2
  /\ ~devices[physical_device].geometryShader
  /\ Eligible(devices[physical_device])
  /\ \E j \in 1 .. Len(devices) :
       devices[j].geometryShader /\ ~devices[j].swapchain_extension
  /\ candidates[1].score = 0
  /\ candidates[2].score = 1

\* a test of EvaluateDevice that has been made and failed left the score 0
RejectedHasScoreZero ==
  /\ (sel_pc \in {"extensions", "swapchain", "return"}
       /\ ~IsCompleted(FindQueueFaimilies(device.queue_families))) => score = 0
  /\ (sel_pc \in {"swapchain", "return"} /\ ~device.swapchain_extension) => score = 0
  /\ (sel_pc = "return" /\ (device.formats = 0 \/ device.present_modes = 0)) => score = 0

\* C18: once the queue family test, the extension test or the swapchain
\* support test of EvaluateDevice has failed, the score is 0 from that test to
\* the return, whatever the device type, the image dimension and the
\* geometry-shader feature; no step after the queue family test raises the
\* score
C18_RejectedScoreZero ==
  /\ []RejectedHasScoreZero
  /\ [][(sel_pc \in {"extensions", "swapchain"}) => (score' <= score)]_vars

\* a discrete device with the geometry-shader feature and the larger image
\* dimension, whose only queue family cannot present, has been evaluated
C18_Witness ==
  /\ sel_pc = "return"
  /\ device.discrete
  /\ device.geometryShader
  /\ device.maxImageDimension2D = 16384
  /\ device.swapchain_extension
  /\ IsAdequate(device)
  /\ Len(device.queue_families) = 1
  /\ device.queue_families[1].graphics
  /\ ~device.queue_families[1].present
  /\ score = 0

\* the scores EvaluateDevice gives to the enumerated devices
EnumeratedScores == {EvaluateDevice(devices[j]) : j \in 1 .. Len(devices)}

\* C19: when PickPhysicalDevice returns, the selected device is an enumerated
\* one whose score is greater than 0 and is the greatest of all enumerated
\* devices; it throws exactly when no device is enumerated or no enumerated
\* device has a score greater than 0
C19_PickMaxScore ==
  /\ sel_pc = "return" =>
       /\ physical_device \in 1 .. Len(devices)
       /\ EvaluateDevice(devices[physical_device]) > 0
       /\ \A s \in EnumeratedScores : s <= EvaluateDevice(devices[physical_device])
  /\ sel_pc = "throw" => \A s \in EnumeratedScores : s <= 0
  /\ (sel_pc = "return" \/ (sel_pc = "evaluate" /\ device_i > 0)) => Len(devices) > 0
  /\ (sel_pc \in {"return", "throw"} /\ \A s \in EnumeratedScores : s <= 0) =>
       (sel_pc = "throw" /\ physical_device = VK_NULL_HANDLE)

\* two devices with different scores greater than 0 were enumerated, the
\* better one first, and it was selected
C19_Witness ==
  /\ sel_pc = "return"
  /\ Len(devices) = 2
  /\ physical_device = 1
  /\ EvaluateDevice(devices[2]) > 0
  /\ EvaluateDevice(devices[2]) < EvaluateDevice(devices[1])
  /\ candidates[2].device = 1

\* indices of the families of the list that have a queue and graphics support
GraphicsFamilies ==
  {i \in 0 .. (Len(queue_families) - 1) :
     queue_families[i + 1].queueCount > 0 /\ queue_families[i + 1].graphics}

\* indices of the families of the list that have a queue and can present
PresentFamilies ==
  {i \in 0 .. (Len(queue_families) - 1) :
     queue_families[i + 1].queueCount > 0 /\ queue_families[i + 1].present}

\* the lowest index of a set of family indices, if it has one
Lowest(S) == IF S = {} THEN NoFamily ELSE CHOOSE i \in S : \A j \in S : i <= j

\* C20: FindQueueFaimilies returns the lowest index of a family with a queue
\* and graphics support and, independently, the lowest index of a family with
\* a queue that can present, and the pair is complete exactly when the list
\* has a family of each kind
C20_LowestFamilies ==
  sel_pc = "return" =>
    /\ indices.graphics_family = Lowest(GraphicsFamilies)
    /\ indices.present_family = Lowest(PresentFamilies)
    /\ IsCompleted(indices) <=> (GraphicsFamilies # {} /\ PresentFamilies # {})

(* ----------------------------------------------------------------------- *)
(* Properties of setup, error handling and teardown                        *)
(* ----------------------------------------------------------------------- *)

\* the throws of FindInstanceExtensions and FindInstanceLayers
UnsupportedMessages ==
  {"Find not supported instance extension(s)", "Find not supported layer(s)"}

\* C21: in a build without validation, on a runtime that has the windowing
\* extensions, neither CreateInstance nor CreateLogicalDevice fails for want
\* of the debug-utils extension or of the validation layer
C21_DiagnosticsOptional ==
  [][ (/\ ~enable_validation
       /\ runtime.window_extensions
       /\ pc \in {"CreateInstance", "CreateLogicalDevice"}
       /\ exc')
      => what' \notin UnsupportedMessages ]_vars

\* a setup step was rejected by the API or the window system
Rejected == \E k \in 1 .. Len(log) : log[k].op = "rejected"

\* C22: once a setup step has been rejected, an exception is on its way to
\* main: the constructor executes no later step and the frame loop is never
\* entered
C22_RejectionIsFatal ==
  Rejected => (exc /\ pc \in {"main_return", "done"})

\* C23: a step of DrawFrame that gets VK_ERROR_OUT_OF_DATE_KHR or
\* VK_SUBOPTIMAL_KHR from acquire or present throws nothing, and DrawFrame
\* goes on without an exception only after a result of acquire or present
\* that is success or one of those two, and only after an accepted submission
C23_OnlyStaleResultsHandled ==
  [][ /\ (/\ pc \in {"acquire", "present"}
          /\ pc' # pc
          /\ result' \in {VK_ERROR_OUT_OF_DATE_KHR, VK_SUBOPTIMAL_KHR}) => ~exc'
      /\ (pc \in {"acquire", "present"} /\ pc' # pc /\ ~exc') => result' # VK_ERROR_OTHER
      /\ (pc = "submit" /\ pc' # pc /\ ~exc') =>
           graphics_queue' = Append(graphics_queue, SubmitInfo(current_frame, image_index))
    ]_vars

\* C24: main returns EXIT_SUCCESS exactly when nothing was thrown, which
\* happens only after the window was closed; once the constructor or Run has
\* thrown, the stack unwinds into the handler of main, which prints the
\* message of the exception and returns EXIT_FAILURE
C24_ExitCode ==
  /\ exc => pc \in {"exec", "main_return", "done"}
  /\ pc = "done" =>
       /\ exit_code = "EXIT_SUCCESS" <=> ~exc
       /\ exit_code = "EXIT_FAILURE" <=> exc
       /\ ~exc => (should_close /\ cerr = << >>)
       /\ exc => cerr = <<what>>

\* the destroy calls on the instance-level chain, in the order they were made
InstanceChain == {"device", "surface", "debug_messenger", "instance"}

ChainDestroys ==
  SelectSeq(log, LAMBDA e : e.op = "destroy" /\ e.obj \in InstanceChain)

\* a destructor has destroyed the instance, its last Vulkan handle
InstanceDestroyed ==
  \E k \in 1 .. Len(log) : log[k] = [op |-> "destroy", obj |-> "instance"]

\* C25: once a destructor (Device::~Device or Application::~Application) has
\* destroyed the instance, the destroy calls it made on the chain are the
\* logical device, the surface, the debug messenger when validation is
\* enabled, and the instance, each exactly once and in that order, and the
\* messenger of a validation build is destroyed indeed
C25_ChainTeardown ==
  InstanceDestroyed =>
    /\ ChainDestroys =
         [k \in 1 .. (IF enable_validation THEN 4 ELSE 3) |->
            [op |-> "destroy",
             obj |-> IF k = 1 THEN "device"
                     ELSE IF k = 2 THEN "surface"
                     ELSE IF k = 3 /\ enable_validation THEN "debug_messenger"
                     ELSE "instance"]]
    /\ enable_validation => objects["debug_messenger"] = "destroyed"

\* ~Application has made all its calls and is about to return
DestructorEnded == pc = "exec" /\ ret = "main_return" /\ ops = << >>

\* the destructor destroyed a and later b, each exactly once
DestroyedBefore(a, b) ==
  \E i, j \in 1 .. Len(log) :
    /\ i < j
    /\ log[i] = [op |-> "destroy", obj |-> a]
    /\ log[j] = [op |-> "destroy", obj |-> b]
    /\ \A k \in 1 .. Len(log) :
         /\ log[k] = log[i] => k = i
         /\ log[k] = log[j] => k = j

\* the objects created from the logical device (application.cc:994-1005,
\* 1046-1093)
DeviceChildren ==
  {"swap_chain", "image_views", "render_pass", "pipeline_layout",
   "graphics_pipeline", "framebuffers", "command_pool", "vertex_buffer",
   "index_buffer", "descriptor_pool", "sync_objects", "imgui"}

\* C26 as stated: at the end of ~Application the graphics pipeline was
\* destroyed before the framebuffers, the image views and the swapchain, these
\* before the logical device, the device before the surface, the surface
\* before the instance, and every child of the device before the device
C26_Original ==
  DestructorEnded =>
    /\ \A o \in SwapChainObjects :
         /\ DestroyedBefore("graphics_pipeline", o)
         /\ DestroyedBefore(o, "device")
    /\ DestroyedBefore("device", "surface")
    /\ DestroyedBefore("surface", "instance")
    /\ \A o \in DeviceChildren : DestroyedBefore(o, "device")

\* C26, amended: at the end of ~Application the framebuffers, the image views
\* and the swapchain were destroyed, in this order, before the graphics
\* pipeline, the pipeline before its layout and the layout before the render
\* pass; every child of the device was destroyed before the device, the device
\* before the surface and the surface before the instance
C26_TeardownOrder ==
  DestructorEnded =>
    /\ DestroyedBefore("framebuffers", "image_views")
    /\ DestroyedBefore("image_views", "swap_chain")
    /\ DestroyedBefore("swap_chain", "graphics_pipeline")
    /\ DestroyedBefore("graphics_pipeline", "pipeline_layout")
    /\ DestroyedBefore("pipeline_layout", "render_pass")
    /\ \A o \in DeviceChildren : DestroyedBefore(o, "device")
    /\ DestroyedBefore("device", "surface")
    /\ DestroyedBefore("surface", "instance")

\* ~Application has run to its end and destroyed every object of its list
C26_Witness ==
  /\ DestructorEnded
  /\ objects["graphics_pipeline"] = "destroyed"
  /\ objects["instance"] = "destroyed"
  /\ Len(log) = Len(DestructorObjectsOf(enable_validation))

\* C27: while the graphics pipeline created by Pipeline::Pipeline or by
\* Application::CreateGraphicsPipeline exists, both shader modules it was
\* built from have been destroyed: they do not outlive the creating operation
C27_ShaderModulesDestroyed ==
  objects["graphics_pipeline"] = "live" =>
    \A m \in ShaderModules : shader_modules[m] = "destroyed"

\* the create info has been built
InfoBuilt == pc = "vkCreateSwapchainKHR"

\* the capabilities CreateSwapChain read
Caps == swap_chain_support.support.capabilities

\* C28: when the surface reports a defined current extent, the extent
\* CreateSwapChain chose is exactly that extent, whatever the framebuffer size
\* and the minimum and maximum image extents are
C28_DefinedExtentReturned ==
  (InfoBuilt /\ Caps.currentExtent # UndefinedExtent) =>
    /\ swap_chain_info.imageExtent = Caps.currentExtent
    /\ swap_chain_extent = Caps.currentExtent

\* a defined current extent that differs from the framebuffer size and lies
\* outside the minimum and maximum image extents was returned
C28_Witness ==
  /\ InfoBuilt
  /\ Caps.currentExtent # UndefinedExtent
  /\ Caps.currentExtent.width # fb_width
  /\ Caps.currentExtent.height < Caps.minImageExtent.height
  /\ swap_chain_extent = Caps.currentExtent

\* v is lo when x is below lo, hi when x is above hi, and x otherwise
IsClamped(v, x, lo, hi) ==
  /\ lo <= v
  /\ v <= hi
  /\ x < lo => v = lo
  /\ hi < x => v = hi
  /\ (lo <= x /\ x <= hi) => v = x

\* C29: when the current extent is the undefined sentinel (and the minimum
\* image extent is at most the maximum in each dimension), the chosen width is
\* the framebuffer width clamped to [min width, max width] and the chosen
\* height is the framebuffer height clamped to [min height, max height]
C29_UndefinedExtentClamped ==
  (/\ InfoBuilt
   /\ Caps.currentExtent = UndefinedExtent
   /\ Caps.minImageExtent.width <= Caps.maxImageExtent.width
   /\ Caps.minImageExtent.height <= Caps.maxImageExtent.height) =>
    /\ IsClamped(swap_chain_extent.width, fb_width,
                 Caps.minImageExtent.width, Caps.maxImageExtent.width)
    /\ IsClamped(swap_chain_extent.height, fb_height,
                 Caps.minImageExtent.height, Caps.maxImageExtent.height)

\* the sentinel was reported, the framebuffer was wider than the maximum and
\* lower than the minimum, and both bounds were returned
C29_Witness ==
  /\ InfoBuilt
  /\ Caps.currentExtent = UndefinedExtent
  /\ Caps.maxImageExtent.width < fb_width
  /\ fb_height < Caps.minImageExtent.height
  /\ swap_chain_extent = Extent2D(Caps.maxImageExtent.width, Caps.minImageExtent.height)

\* C30: the image count CreateSwapChain requests is minImageCount + 1 when
\* maxImageCount is 0 or minImageCount + 1 <= maxImageCount, and maxImageCount
\* otherwise; it never exceeds a non-zero maxImageCount
C30_ImageCount ==
  InfoBuilt =>
    /\ (Caps.maxImageCount = 0 \/ Caps.minImageCount + 1 <= Caps.maxImageCount)
         => swap_chain_info.minImageCount = Caps.minImageCount + 1
    /\ ~(Caps.maxImageCount = 0 \/ Caps.minImageCount + 1 <= Caps.maxImageCount)
         => swap_chain_info.minImageCount = Caps.maxImageCount
    /\ Caps.maxImageCount # 0 => swap_chain_info.minImageCount <= Caps.maxImageCount

\* the cap applied: minImageCount + 1 exceeded a non-zero maxImageCount
C30_Witness ==
  /\ InfoBuilt
  /\ Caps.maxImageCount # 0
  /\ Caps.maxImageCount < Caps.minImageCount + 1
  /\ swap_chain_info.minImageCount = Caps.maxImageCount

\* Application::CreateSwapChain has built its create info
ApplicationInfoBuilt == pc \in {"Application::CreateImageViews", "Application::created"}

\* SwapChain::CreateSwapChain or Device::CreateSwapChain has built its create info
ClassInfoBuilt == pc \in {"SwapChain::CreateImageViews", "SwapChain::created"}

\* the surface format of the create info
ChosenFormat ==
  [format |-> swap_chain_info.imageFormat, colorSpace |-> swap_chain_info.imageColorSpace]

\* 8-bit BGRA with the sRGB non-linear colour space
IsBgraSrgbNonlinear(f) ==
  /\ f.format = "VK_FORMAT_B8G8R8A8_UNORM"
  /\ f.colorSpace = "VK_COLOR_SPACE_SRGB_NONLINEAR_KHR"

\* C31: for every non-empty list of surface formats, the format Application
\* chooses is the first entry that is 8-bit BGRA with the sRGB non-linear
\* colour space, wherever it stands, and element 0 of the list when no entry
\* matches; it is always a member of the list
C31_SurfaceFormatChoice ==
  ApplicationInfoBuilt =>
    /\ \E k \in 1 .. Len(surface.formats) : surface.formats[k] = ChosenFormat
    /\ \A k \in 1 .. Len(surface.formats) :
         (/\ IsBgraSrgbNonlinear(surface.formats[k])
          /\ \A j \in 1 .. (k - 1) : ~IsBgraSrgbNonlinear(surface.formats[j]))
           => ChosenFormat = surface.formats[k]
    /\ (\A k \in 1 .. Len(surface.formats) : ~IsBgraSrgbNonlinear(surface.formats[k]))
         => ChosenFormat = surface.formats[1]

\* the only matching entry stands third, after an entry of the same format
\* with another colour space, and was chosen
C31_Witness ==
  /\ ApplicationInfoBuilt
  /\ Len(surface.formats) = 3
  /\ surface.formats[1].format = "VK_FORMAT_B8G8R8A8_UNORM"
  /\ ~IsBgraSrgbNonlinear(surface.formats[1])
  /\ ~IsBgraSrgbNonlinear(surface.formats[2])
  /\ IsBgraSrgbNonlinear(surface.formats[3])
  /\ ChosenFormat = surface.formats[3]

\* the list of present modes holds MAILBOX
HasMailbox ==
  \E k \in 1 .. Len(surface.present_modes) :
    surface.present_modes[k] = "VK_PRESENT_MODE_MAILBOX_KHR"

\* C32: for every list of present modes, Application chooses MAILBOX exactly
\* when the list holds MAILBOX, at whatever position, and FIFO otherwise
C32_PresentModeChoice ==
  ApplicationInfoBuilt =>
    /\ HasMailbox <=> swap_chain_info.presentMode = "VK_PRESENT_MODE_MAILBOX_KHR"
    /\ ~HasMailbox <=> swap_chain_info.presentMode = "VK_PRESENT_MODE_FIFO_KHR"

\* MAILBOX stood last in a list that starts with another mode and was chosen
C32_Witness ==
  /\ ApplicationInfoBuilt
  /\ Len(surface.present_modes) = 3
  /\ surface.present_modes[1] = "VK_PRESENT_MODE_IMMEDIATE_KHR"
  /\ surface.present_modes[2] = "VK_PRESENT_MODE_FIFO_KHR"
  /\ surface.present_modes[3] = "VK_PRESENT_MODE_MAILBOX_KHR"
  /\ swap_chain_info.presentMode = "VK_PRESENT_MODE_MAILBOX_KHR"

\* the list of present modes holds FIFO, as every surface's does
HasFifo ==
  \E k \in 1 .. Len(surface.present_modes) :
    surface.present_modes[k] = "VK_PRESENT_MODE_FIFO_KHR"

\* C33: SwapChain::ChooseSwapPresentMode and Device::ChooseSwapPresentMode
\* choose FIFO whenever MAILBOX is not in the list of a surface, whatever
\* else the list holds and in whatever order
C33_ClassFallsBackToFifo ==
  (ClassInfoBuilt /\ HasFifo /\ ~HasMailbox) =>
    swap_chain_info.presentMode = "VK_PRESENT_MODE_FIFO_KHR"

\* C34: after SwapChain::CreateImageViews and Device::CreateImageViews there
\* is one image view per swapchain image, and view k is a view of image k
C34_ClassViewPerImage ==
  pc = "SwapChain::created" =>
    /\ DOMAIN swap_chain_image_views = DOMAIN swap_chain_images
    /\ \A k \in DOMAIN swap_chain_images : swap_chain_image_views[k].image = k

\* C39: Application, SwapChain and Device create the swapchain with concurrent
\* sharing exactly when the graphics and the present family differ and with
\* exclusive sharing exactly when they are equal
C39_SharingMode ==
  (ApplicationInfoBuilt \/ ClassInfoBuilt) =>
    /\ swap_chain_info.imageSharingMode = "VK_SHARING_MODE_CONCURRENT"
         <=> indices.graphics_family # indices.present_family
    /\ swap_chain_info.imageSharingMode = "VK_SHARING_MODE_EXCLUSIVE"
         <=> indices.graphics_family = indices.present_family

\* C35: one resize notification causes one recreation. A recreation that
\* DrawFrame started after a successful present, that is because of the resize
\* flag alone, leaves the flag cleared when it returns, so that the next frame
\* whose acquire and present succeed, with no resize callback since, does not
\* recreate the swapchain again
C35_OneRecreationPerResize ==
  [][ (/\ pc = "exec"
       /\ ops = << >>
       /\ ret = "advance"
       /\ result = VK_SUCCESS
       /\ pc' = "advance")
      => ~framebuffer_resized' ]_vars

\* present requests still in the queue of the presentation engine that wait
\* on semaphore s
PresentsWaitingOn(s) == {k \in 1 .. Len(present_queue) : s \in present_queue[k].wait}

\* C36: when DrawFrame submits the work of slot i, which will signal the
\* slot's render-finished semaphore, no present request of an earlier frame
\* that waits on this semaphore is still unconsumed: the fence wait of the
\* slot is enough to exclude it
C36_RenderFinishedConsumed ==
  [][ (pc = "submit" /\ Len(graphics_queue') > Len(graphics_queue))
      => PresentsWaitingOn(RenderFinished(current_frame)) = {} ]_vars


\* The semaphore s has a signal that no submission has consumed yet: the
\* acquire that names it has not signalled it, or it is signalled
SignalPending(s) ==
  \/ semaphores[s]
  \/ \E k \in DOMAIN swap_chain_images :
       /\ swap_chain_images[k].state = "acquiring"
       /\ swap_chain_images[k].sem = s

\* The queued submissions that wait on the semaphore s
SubmitsWaitingOn(s) == {k \in 1 .. Len(graphics_queue) : s \in graphics_queue[k].wait}

\* The steps of DrawFrame between a successful acquire and its vkQueueSubmit
BeforeSubmit == pc \in {"reset_fence", "record", "submit"}

\* C37: on every path without an exception, the image-available semaphore of
\* the current slot is passed to vkAcquireNextImageKHR with no signal pending
\* on it and no submission still waiting on it; a signal from a successful
\* acquire is pending without a submission to wait on it only between that
\* acquire and the vkQueueSubmit of the same frame, and no semaphore ever has
\* two submissions waiting on it, a swapchain recreation included.
C37_ImageAvailableConsumed ==
  ~exc =>
    /\ pc = "acquire" =>
         /\ ~SignalPending(ImageAvailable(current_frame))
         /\ SubmitsWaitingOn(ImageAvailable(current_frame)) = {}
    /\ \A i \in Slots :
         /\ Cardinality(SubmitsWaitingOn(ImageAvailable(i))) <= 1
         /\ (SignalPending(ImageAvailable(i)) /\ SubmitsWaitingOn(ImageAvailable(i)) = {})
              => (i = current_frame /\ BeforeSubmit)
         /\ (i = current_frame /\ BeforeSubmit)
              => (SignalPending(ImageAvailable(i)) /\ SubmitsWaitingOn(ImageAvailable(i)) = {})

\* RecreateSwapChain is about to return to a DrawFrame that presented: the
\* acquire of this frame succeeded on a slot used before, its one submission
\* has run and has consumed the signal
C37_Witness ==
  /\ ~exc
  /\ pc = "exec" /\ ops = << >> /\ ret = "advance"
  /\ log = RecreateOrder
  /\ command_buffers[current_frame] = "executable"
  /\ \A i \in Slots : in_flight_fences[i]
  /\ ~SignalPending(ImageAvailable(current_frame))
  /\ SubmitsWaitingOn(ImageAvailable(current_frame)) = {}


\* C38: RecreateSwapChain idles the device, destroys and creates nothing while
\* the framebuffer width or height is 0: whenever it is past its size loop,
\* both are non-zero.
C38_NoRecreationAtZeroSize ==
  InRecreate => (fb_width # 0 /\ fb_height # 0)


\* C40: when a setup step of the constructor has failed and the process has
\* left main, no object a previous step created is still live.
C40_FailedSetupReleases ==
  (Rejected /\ pc = "done") => \A o \in ObjectNames : objects[o] # "live"

====
